---- MODULE Spec2Model ----
(***************************************************************************)
(* State-machine model of the input translation engine of moonlight-qt     *)
(* (SdlInputHandler: gamepad slot table, keyboard translation, pointer     *)
(* capture).  Every handler of the source is one action; the calls a       *)
(* handler makes to the streaming host (LiSend...) and to its local        *)
(* collaborators (SDL_PushEvent, Session) are recorded, in call order, in  *)
(* the variable out, which holds the calls of the last handler only.       *)
(***************************************************************************)
EXTENDS Integers, Sequences, FiniteSets, TLC

(***************************************************************************)
(* Program constants                                                       *)
(***************************************************************************)
MAX_GAMEPADS == 4
MOUSE_EMULATION_LONG_PRESS_TIME == 750
VK_0 == 48
VK_A == 65
VK_F1 == 112
VK_F13 == 124
VK_NUMPAD0 == 96

NULL == 0

\* milliseconds
LONG_PRESS_ACTIVATION_DELAY == 650
DOUBLE_TAP_DEAD_ZONE_DELAY == 250
\* 0.01f and 0.025f of the window, in thousandths (touch coordinates are
\* kept in thousandths of the window size)
LONG_PRESS_ACTIVATION_DELTA == 10
DOUBLE_TAP_DEAD_ZONE_DELTA == 25

(***************************************************************************)
(* Bounds of the model                                                     *)
(***************************************************************************)
\* joystick instance ids SDL hands out are 0..MaxInstanceId
MaxInstanceId == 4
\* game controllers already connected when the handler is constructed
MaxInitialControllers == 2
\* controllers (instance ids 0..MaxEventId) whose buttons and axes are exercised
MaxEventId == 1
\* SDL_GetTicks advances in steps of just over the long-press time, this many times
MaxClockSteps == 2
\* keys the keyboard reports as held at the same time
MaxKeysHeld == 4
\* SDL_MOUSEMOTION events dispatched in a run
MaxMotionEvents == 3
\* fingers 0..MaxFingerId touch the screen
MaxFingerId == 1
\* SDL_GetTicks() stays at or below this while fingers touch the screen
MaxTouchTicks == 650

InstanceIds == 0..MaxInstanceId
EventIds == 0..MaxEventId
GamepadSlots == 0..(MAX_GAMEPADS - 1)
ClockStep == MOUSE_EMULATION_LONG_PRESS_TIME + 1

VARIABLES
    \* ---- SdlInputHandler fields (gamepads)
    m_MultiController,      \* prefs.multiController
    m_GamepadMouse,         \* prefs.gamepadMouse
    m_GamepadMask,          \* int bitmask, as the set of its set bit numbers
    m_GamepadState,         \* GamepadState m_GamepadState[MAX_GAMEPADS]
    \* ---- SDL, as seen by the gamepad handlers
    joysticks,              \* instance ids of the joysticks connected now
    nextInstanceId,         \* the instance id SDL gives the next joystick
    ticks,                  \* SDL_GetTicks()
    axisQueue,              \* pending SDL_CONTROLLERAXISMOTION events, oldest first
    \* ---- SdlInputHandler fields (keyboard, pointer capture)
    m_KeysDown,             \* QSet<short> m_KeysDown
    m_FakeCaptureActive,
    m_AbsoluteMouseMode,
    \* ---- SDL / Qt / Session, as seen by the keyboard and mouse handlers
    sdlKeysHeld,            \* scancodes SDL reports as pressed
    relativeMouseMode,      \* SDL_GetRelativeMouseMode()
    windowFullscreen,       \* SDL_GetWindowFlags(window) & SDL_WINDOW_FULLSCREEN
    platformName,           \* QGuiApplication::platformName()
    keyboardLayout,         \* decides keysym.sym for a scancode
    windowFocused,          \* the window has the input focus
    \* ---- SdlInputHandler fields (mouse motion, touch)
    m_StreamWidth,
    m_StreamHeight,
    m_MouseDeltaX,          \* SDL_atomic_t
    m_MouseDeltaY,          \* SDL_atomic_t
    m_LastTouchDownEvent,   \* SDL_TouchFingerEvent
    m_LastTouchUpEvent,     \* SDL_TouchFingerEvent
    m_LongPressTimer,       \* SDL_TimerID, 0 when none
    \* ---- the two threads that touch the mouse deltas
    motionPc,               \* event loop: position inside handleMouseMotionEvent
    motionEvent,            \* event loop: the event handleMouseMotionEvent was called with
    timerPc,                \* timer thread: position inside mouseMoveTimerCallback
    deltaX,                 \* timer thread: local deltaX of mouseMoveTimerCallback
    deltaY,                 \* timer thread: local deltaY of mouseMoveTimerCallback
    \* ---- SDL, as seen by the mouse motion and touch handlers
    windowWidth,            \* SDL_GetWindowSize
    windowHeight,
    fingersDown,            \* fingers SDL tracks on the touchscreen
    longPressPending,       \* SDL still has the long press timer scheduled
    longPressDeadline,      \* SDL_GetTicks() value at which it is due
    \* ---- history of the mouse deltas
    acceptedX,              \* sum of xrel added to m_MouseDeltaX so far
    acceptedY,              \* sum of yrel added to m_MouseDeltaY so far
    sentX,                  \* sum of dx of the LiSendMouseMoveEvent calls so far
    sentY,                  \* sum of dy of the LiSendMouseMoveEvent calls so far
    deltasInRange,          \* no accumulator has left the range of a short so far
    motionCount,            \* SDL_MOUSEMOTION events dispatched so far
    \* ---- EGLRenderer fields
    m_SwPixelFormat,
    m_shader_program,       \* GL program name, 0 when none
    VAO,                    \* static unsigned int VAO of renderFrame
    \* ---- GL and the process, as seen by EGLRenderer
    glCurrentProgram,       \* the program glUseProgram made current
    yuvmat,                 \* value of the uniform yuvmat of the current program
    textures,               \* what m_textures[0..1] were last given by an image import
    openFds,                \* DMA-BUF file descriptors the process holds open
    \* ---- the host, as the calls sent so far have left it
    hostMouseButtons,       \* pointer buttons whose last LiSendMouseButtonEvent was a press
    hostKeysDown,           \* key codes whose last LiSendKeyboardEvent was a key-down
    \* ---- the life of the EGLRenderer and what it holds in the GL driver
    rendererPc,             \* "constructed", "initialized", "failed" or "destroyed"
    m_context,              \* SDL_GLContext, 0 when none
    glLive,                 \* GL objects created by the renderer and not deleted
    swapInterval,           \* <<interval>> as SDL_GL_SetSwapInterval last set it, <<>> before
    failedAssertions,       \* SDL_assert conditions that were false when reached
    \* ---- the SDL timer thread
    longPressPc,            \* where the thread is in longPressTimerCallback
    \* ---- observation
    ev,                     \* the event the last handler was called with
    out                     \* calls made by the last handler, in order

padVars == <<m_MultiController, m_GamepadMouse, m_GamepadMask, m_GamepadState,
             joysticks, nextInstanceId, ticks, axisQueue>>
keyVars == <<m_KeysDown, m_FakeCaptureActive, m_AbsoluteMouseMode, sdlKeysHeld,
             relativeMouseMode, windowFullscreen, platformName, keyboardLayout, windowFocused>>
motionVars == <<m_MouseDeltaX, m_MouseDeltaY, motionPc, motionEvent, timerPc, deltaX, deltaY,
                acceptedX, acceptedY, sentX, sentY, deltasInRange, motionCount>>
touchVars == <<m_LastTouchDownEvent, m_LastTouchUpEvent, m_LongPressTimer,
               fingersDown, longPressPending, longPressDeadline>>
sizeVars == <<m_StreamWidth, m_StreamHeight, windowWidth, windowHeight>>
ptrVars == <<motionVars, touchVars, sizeVars>>
eglVars == <<m_SwPixelFormat, m_shader_program, VAO, glCurrentProgram, yuvmat, textures,
             openFds>>
hostVars == <<hostMouseButtons, hostKeysDown>>
threadVars == <<longPressPc>>
glVars == <<rendererPc, m_context, glLive, swapInterval, failedAssertions>>
otherVars == <<ptrVars, eglVars, glVars, hostVars, threadVars>>
vars == <<padVars, keyVars, otherVars, ev, out>>

(***************************************************************************)
(* Outbound calls                                                          *)
(***************************************************************************)
LiSendMultiControllerEvent(index, mask, buttons, lt, rt, lsX, lsY, rsX, rsY) ==
    [type |-> "LiSendMultiControllerEvent", index |-> index, mask |-> mask,
     buttons |-> buttons, lt |-> lt, rt |-> rt,
     lsX |-> lsX, lsY |-> lsY, rsX |-> rsX, rsY |-> rsY]

LiSendMouseButtonEvent(action, button) ==
    [type |-> "LiSendMouseButtonEvent", action |-> action, button |-> button]

LiSendMousePositionEvent(x, y, referenceWidth, referenceHeight) ==
    [type |-> "LiSendMousePositionEvent", x |-> x, y |-> y,
     referenceWidth |-> referenceWidth, referenceHeight |-> referenceHeight]

LiSendMouseMoveEvent(dx, dy) ==
    [type |-> "LiSendMouseMoveEvent", deltaX |-> dx, deltaY |-> dy]

LiSendScrollEvent(amount) ==
    [type |-> "LiSendScrollEvent", amount |-> amount]

LiSendKeyboardEvent(keyCode, action, modifiers) ==
    [type |-> "LiSendKeyboardEvent", keyCode |-> keyCode, action |-> action,
     modifiers |-> modifiers]

PushQuitEvent == [type |-> "SDL_PushEvent", event |-> "SDL_QUIT"]

notifyMouseEmulationMode(on) == [type |-> "notifyMouseEmulationMode", on |-> on]

SDL_GameControllerClose(controller) ==
    [type |-> "SDL_GameControllerClose", controller |-> controller]

(***************************************************************************)
(* Gamepad slot table                                                      *)
(***************************************************************************)
\* SDL_zero / SDL_memset(state, 0, sizeof(*state))
ZeroGamepadState ==
    [controller |-> NULL, jsId |-> 0, index |-> 0,
     mouseEmulationTimer |-> 0, lastStartDownTime |-> 0,
     buttons |-> {}, lsX |-> 0, lsY |-> 0, rsX |-> 0, rsY |-> 0,
     lt |-> 0, rt |-> 0]

\* SDL controller button -> Limelight button flag
k_ButtonMap ==
    [A |-> "A_FLAG", B |-> "B_FLAG", X |-> "X_FLAG", Y |-> "Y_FLAG",
     BACK |-> "BACK_FLAG", GUIDE |-> "SPECIAL_FLAG", START |-> "PLAY_FLAG",
     LEFTSTICK |-> "LS_CLK_FLAG", RIGHTSTICK |-> "RS_CLK_FLAG",
     LEFTSHOULDER |-> "LB_FLAG", RIGHTSHOULDER |-> "RB_FLAG",
     DPAD_UP |-> "UP_FLAG", DPAD_DOWN |-> "DOWN_FLAG",
     DPAD_LEFT |-> "LEFT_FLAG", DPAD_RIGHT |-> "RIGHT_FLAG"]

QuitCombo == {"PLAY_FLAG", "BACK_FLAG", "LB_FLAG", "RB_FLAG"}

\* the SDL_GameController* that SDL_GameControllerOpen returns for a joystick
ControllerOf(id) == id + 1

NotFound == -1

\* the first slot whose jsId equals id, or NotFound (nullptr)
findStateForGamepad(id) ==
    IF \E i \in GamepadSlots : m_GamepadState[i].jsId = id
    THEN CHOOSE i \in GamepadSlots :
            /\ m_GamepadState[i].jsId = id
            /\ \A j \in GamepadSlots : j < i => m_GamepadState[j].jsId # id
    ELSE NotFound

\* a send that reports every slot as the first player
sendGamepadStateAsPlayerOne(state, mask) ==
    LiSendMultiControllerEvent(0, mask, state.buttons,
                               state.lt, state.rt,
                               state.lsX, state.lsY, state.rsX, state.rsY)

sendGamepadState(state, mask) ==
    LiSendMultiControllerEvent(state.index, mask, state.buttons,
                               state.lt, state.rt,
                               state.lsX, state.lsY, state.rsX, state.rsY)

\* bits 0..count-1, count the number of game controllers SDL lists
getAttachedGamepadMask(multiController, numControllers) ==
    IF ~multiController THEN {0}
    ELSE 0..(numControllers - 1)

\* a slot search that takes the highest free slot
FirstFreeSlotHighest ==
    IF \E i \in GamepadSlots : m_GamepadState[i].controller = NULL
    THEN CHOOSE i \in GamepadSlots :
            /\ m_GamepadState[i].controller = NULL
            /\ \A j \in GamepadSlots : j > i => m_GamepadState[j].controller # NULL
    ELSE MAX_GAMEPADS

\* a slot search that reuses the last slot when no slot is free
FirstFreeSlotOrLast ==
    IF \E i \in GamepadSlots : m_GamepadState[i].controller = NULL
    THEN CHOOSE i \in GamepadSlots :
            /\ m_GamepadState[i].controller = NULL
            /\ \A j \in GamepadSlots : j < i => m_GamepadState[j].controller # NULL
    ELSE MAX_GAMEPADS - 1

\* the loop of handleControllerDeviceEvent: first slot with no controller
FirstFreeSlot ==
    IF \E i \in GamepadSlots : m_GamepadState[i].controller = NULL
    THEN CHOOSE i \in GamepadSlots :
            /\ m_GamepadState[i].controller = NULL
            /\ \A j \in GamepadSlots : j < i => m_GamepadState[j].controller # NULL
    ELSE MAX_GAMEPADS

(***************************************************************************)
(* handleControllerButtonEvent                                             *)
(***************************************************************************)
\* the pointer call a controller button maps to while mouse emulation runs
MouseEmulationPress(button) ==
    CASE button = "A" -> <<LiSendMouseButtonEvent("PRESS", "LEFT")>>
      [] button = "B" -> <<LiSendMouseButtonEvent("PRESS", "RIGHT")>>
      [] button = "X" -> <<LiSendMouseButtonEvent("PRESS", "MIDDLE")>>
      [] button = "LEFTSHOULDER" -> <<LiSendMouseButtonEvent("PRESS", "X1")>>
      [] button = "RIGHTSHOULDER" -> <<LiSendMouseButtonEvent("PRESS", "X2")>>
      [] button = "DPAD_UP" -> <<LiSendScrollEvent(1)>>
      [] button = "DPAD_DOWN" -> <<LiSendScrollEvent(-1)>>
      [] OTHER -> <<>>

MouseEmulationRelease(button) ==
    CASE button = "A" -> <<LiSendMouseButtonEvent("RELEASE", "LEFT")>>
      [] button = "B" -> <<LiSendMouseButtonEvent("RELEASE", "RIGHT")>>
      [] button = "X" -> <<LiSendMouseButtonEvent("RELEASE", "MIDDLE")>>
      [] button = "LEFTSHOULDER" -> <<LiSendMouseButtonEvent("RELEASE", "X1")>>
      [] button = "RIGHTSHOULDER" -> <<LiSendMouseButtonEvent("RELEASE", "X2")>>
      [] OTHER -> <<>>

\* the SDL_PRESSED branch: [state, out]
ButtonPressed(s0, button) ==
    LET s1 == [s0 EXCEPT !.buttons = @ \cup {k_ButtonMap[button]}] IN
    IF button = "START"
    THEN [state |-> [s1 EXCEPT !.lastStartDownTime = ticks], out |-> <<>>]
    ELSE IF s1.mouseEmulationTimer # 0
    THEN [state |-> s1, out |-> MouseEmulationPress(button)]
    ELSE [state |-> s1, out |-> <<>>]

\* a release branch that leaves mouse emulation on any release of Start
ButtonReleasedAnyPress(s0, button) ==
    LET s1 == [s0 EXCEPT !.buttons = @ \ {k_ButtonMap[button]}] IN
    IF button = "START"
    THEN IF s1.mouseEmulationTimer # 0
         THEN [state |-> [s1 EXCEPT !.mouseEmulationTimer = 0],
               out |-> <<notifyMouseEmulationMode(FALSE)>>]
         ELSE IF ticks - s1.lastStartDownTime > MOUSE_EMULATION_LONG_PRESS_TIME
                 /\ m_GamepadMouse
         THEN [state |-> [s1 EXCEPT !.mouseEmulationTimer = 1],
               out |-> <<sendGamepadState(s1, m_GamepadMask),
                         notifyMouseEmulationMode(TRUE)>>]
         ELSE [state |-> s1, out |-> <<>>]
    ELSE IF s1.mouseEmulationTimer # 0
    THEN [state |-> s1, out |-> MouseEmulationRelease(button)]
    ELSE [state |-> s1, out |-> <<>>]

\* a release branch that starts mouse emulation whatever the option says
ButtonReleasedIgnoresOption(s0, button) ==
    LET s1 == [s0 EXCEPT !.buttons = @ \ {k_ButtonMap[button]}] IN
    IF button = "START"
    THEN IF ticks - s1.lastStartDownTime > MOUSE_EMULATION_LONG_PRESS_TIME
         THEN IF s1.mouseEmulationTimer # 0
              THEN [state |-> [s1 EXCEPT !.mouseEmulationTimer = 0],
                    out |-> <<notifyMouseEmulationMode(FALSE)>>]
              ELSE [state |-> [s1 EXCEPT !.mouseEmulationTimer = 1],
                    out |-> <<sendGamepadState(s1, m_GamepadMask),
                              notifyMouseEmulationMode(TRUE)>>]
         ELSE [state |-> s1, out |-> <<>>]
    ELSE IF s1.mouseEmulationTimer # 0
    THEN [state |-> s1, out |-> MouseEmulationRelease(button)]
    ELSE [state |-> s1, out |-> <<>>]

\* the SDL_RELEASED branch: [state, out]
ButtonReleased(s0, button) ==
    LET s1 == [s0 EXCEPT !.buttons = @ \ {k_ButtonMap[button]}] IN
    IF button = "START"
    THEN IF ticks - s1.lastStartDownTime > MOUSE_EMULATION_LONG_PRESS_TIME
         THEN IF s1.mouseEmulationTimer # 0
              THEN [state |-> [s1 EXCEPT !.mouseEmulationTimer = 0],
                    out |-> <<notifyMouseEmulationMode(FALSE)>>]
              ELSE IF m_GamepadMouse
              THEN [state |-> [s1 EXCEPT !.mouseEmulationTimer = 1],
                    out |-> <<sendGamepadState(s1, m_GamepadMask),
                              notifyMouseEmulationMode(TRUE)>>]
              ELSE [state |-> s1, out |-> <<>>]
         ELSE [state |-> s1, out |-> <<>>]
    ELSE IF s1.mouseEmulationTimer # 0
    THEN [state |-> s1, out |-> MouseEmulationRelease(button)]
    ELSE [state |-> s1, out |-> <<>>]

\* a handler tail that forwards the real state along with the quit event
ButtonTailForwardsState(s) ==
    IF s.buttons = QuitCombo
    THEN <<PushQuitEvent, sendGamepadState(s, m_GamepadMask)>>
    ELSE IF s.mouseEmulationTimer = 0
    THEN <<sendGamepadState(s, m_GamepadMask)>>
    ELSE <<>>

\* a handler tail that forwards the state whether or not mouse emulation runs
ButtonTailIgnoresMouseEmulation(s) ==
    IF s.buttons = QuitCombo
    THEN <<PushQuitEvent,
           LiSendMultiControllerEvent(s.index, m_GamepadMask, {}, 0, 0, 0, 0, 0, 0)>>
    ELSE <<sendGamepadState(s, m_GamepadMask)>>

\* the tail of the handler: quit combo, else forward the state: the calls made
ButtonTail(s) ==
    IF s.buttons = QuitCombo
    THEN <<PushQuitEvent,
           LiSendMultiControllerEvent(s.index, m_GamepadMask, {}, 0, 0, 0, 0, 0, 0)>>
    ELSE IF s.mouseEmulationTimer = 0
    THEN <<sendGamepadState(s, m_GamepadMask)>>
    ELSE <<>>

handleControllerButtonEvent(which, button, pressed) ==
    LET i == findStateForGamepad(which) IN
    /\ ev' = [type |-> "SDL_CONTROLLERBUTTON", which |-> which,
              button |-> button, pressed |-> pressed]
    /\ IF i = NotFound
       THEN /\ out' = <<>>
            /\ UNCHANGED m_GamepadState
       ELSE LET r == IF pressed THEN ButtonPressed(m_GamepadState[i], button)
                     ELSE ButtonReleased(m_GamepadState[i], button)
            IN /\ m_GamepadState' = [m_GamepadState EXCEPT ![i] = r.state]
               /\ out' = r.out \o ButtonTail(r.state)
    /\ UNCHANGED <<m_MultiController, m_GamepadMouse, m_GamepadMask, axisQueue>>

(***************************************************************************)
(* handleControllerAxisEvent                                               *)
(***************************************************************************)
ControllerAxes == {"LEFTX", "LEFTY", "RIGHTX", "RIGHTY", "TRIGGERLEFT", "TRIGGERRIGHT"}

Max(a, b) == IF a > b THEN a ELSE b

\* (unsigned char)(value * 255UL / 32767), for the values >= 0 SDL reports for a trigger
TriggerValue(value) == ((value * 255) \div 32767) % 256

\* a switch that negates the Y axes without the cap: the 16-bit field wraps
ApplyAxisUncapped(s, axis, value) ==
    CASE axis = "LEFTX" -> [s EXCEPT !.lsX = value]
      [] axis = "LEFTY" -> [s EXCEPT !.lsY = ((-value + 32768) % 65536) - 32768]
      [] axis = "RIGHTX" -> [s EXCEPT !.rsX = value]
      [] axis = "RIGHTY" -> [s EXCEPT !.rsY = ((-value + 32768) % 65536) - 32768]
      [] axis = "TRIGGERLEFT" -> [s EXCEPT !.lt = TriggerValue(value)]
      [] axis = "TRIGGERRIGHT" -> [s EXCEPT !.rt = TriggerValue(value)]

\* the switch on event->axis
ApplyAxis(s, axis, value) ==
    CASE axis = "LEFTX" -> [s EXCEPT !.lsX = value]
      [] axis = "LEFTY" -> [s EXCEPT !.lsY = -Max(value, -32767)]
      [] axis = "RIGHTX" -> [s EXCEPT !.rsX = value]
      [] axis = "RIGHTY" -> [s EXCEPT !.rsY = -Max(value, -32767)]
      [] axis = "TRIGGERLEFT" -> [s EXCEPT !.lt = TriggerValue(value)]
      [] axis = "TRIGGERRIGHT" -> [s EXCEPT !.rt = TriggerValue(value)]

\* a loop that takes every pending axis event, whichever controller it is of
RECURSIVE AxisBatchAcrossControllers(_, _, _, _)
AxisBatchAcrossControllers(s, event, gameControllerId, pending) ==
    IF event.axis \notin ControllerAxes
    THEN [state |-> s, pending |-> pending, unhandled |-> TRUE]
    ELSE LET s1 == ApplyAxis(s, event.axis, event.value) IN
         IF pending = <<>>
         THEN [state |-> s1, pending |-> pending, unhandled |-> FALSE]
         ELSE AxisBatchAcrossControllers(s1, Head(pending), gameControllerId, Tail(pending))

\* the for(;;) loop: applies event, then every pending axis event of the same
\* controller that follows; [state, pending, unhandled]
RECURSIVE AxisBatch(_, _, _, _)
AxisBatch(s, event, gameControllerId, pending) ==
    IF event.axis \notin ControllerAxes
    THEN [state |-> s, pending |-> pending, unhandled |-> TRUE]
    ELSE LET s1 == ApplyAxis(s, event.axis, event.value) IN
         IF pending = <<>>
         THEN [state |-> s1, pending |-> pending, unhandled |-> FALSE]
         ELSE IF Head(pending).which # gameControllerId
         THEN [state |-> s1, pending |-> pending, unhandled |-> FALSE]
         ELSE AxisBatch(s1, Head(pending), gameControllerId, Tail(pending))

\* the handler called with event while pending are the axis events still queued
handleControllerAxisEvent(event, pending) ==
    LET i == findStateForGamepad(event.which) IN
    /\ ev' = [type |-> "SDL_CONTROLLERAXISMOTION", which |-> event.which,
              axis |-> event.axis, value |-> event.value]
    /\ IF i = NotFound
       THEN /\ out' = <<>>
            /\ axisQueue' = pending
            /\ UNCHANGED m_GamepadState
       ELSE LET r == AxisBatch(m_GamepadState[i], event, event.which, pending) IN
            /\ m_GamepadState' = [m_GamepadState EXCEPT ![i] = r.state]
            /\ axisQueue' = r.pending
            /\ out' = IF ~r.unhandled /\ r.state.mouseEmulationTimer = 0
                      THEN <<sendGamepadState(r.state, m_GamepadMask)>>
                      ELSE <<>>
    /\ UNCHANGED <<m_MultiController, m_GamepadMouse, m_GamepadMask>>

(***************************************************************************)
(* handleControllerDeviceEvent                                             *)
(***************************************************************************)
\* an attach that sends the arrival event before it adds the slot to the mask
handleControllerDeviceAddedStaleMask(id, opened) ==
    LET controller == IF opened THEN ControllerOf(id) ELSE NULL
        i == FirstFreeSlot
    IN
    /\ ev' = [type |-> "SDL_CONTROLLERDEVICEADDED", which |-> id, opened |-> opened]
    /\ IF controller = NULL
       THEN /\ out' = <<>>
            /\ UNCHANGED <<m_GamepadState, m_GamepadMask>>
       ELSE IF i = MAX_GAMEPADS
       THEN /\ out' = <<SDL_GameControllerClose(controller)>>
            /\ UNCHANGED <<m_GamepadState, m_GamepadMask>>
       ELSE LET s == [m_GamepadState[i] EXCEPT
                        !.index = IF m_MultiController THEN i ELSE 0,
                        !.controller = controller,
                        !.jsId = id]
            IN /\ m_GamepadState' = [m_GamepadState EXCEPT ![i] = s]
               /\ m_GamepadMask' = IF m_MultiController
                                   THEN m_GamepadMask \cup {s.index}
                                   ELSE m_GamepadMask
               /\ out' = <<sendGamepadState(s, m_GamepadMask)>>
    /\ UNCHANGED <<m_MultiController, m_GamepadMouse, axisQueue>>

\* SDL_CONTROLLERDEVICEADDED for the joystick with instance id id; opened is
\* whether SDL_GameControllerOpen succeeds
handleControllerDeviceAdded(id, opened) ==
    LET controller == IF opened THEN ControllerOf(id) ELSE NULL
        i == FirstFreeSlot
    IN
    /\ ev' = [type |-> "SDL_CONTROLLERDEVICEADDED", which |-> id, opened |-> opened]
    /\ IF controller = NULL
       THEN /\ out' = <<>>
            /\ UNCHANGED <<m_GamepadState, m_GamepadMask>>
       ELSE IF i = MAX_GAMEPADS
       THEN /\ out' = <<SDL_GameControllerClose(controller)>>
            /\ UNCHANGED <<m_GamepadState, m_GamepadMask>>
       ELSE LET s == [m_GamepadState[i] EXCEPT
                        !.index = IF m_MultiController THEN i ELSE 0,
                        !.controller = controller,
                        !.jsId = id]
                mask == IF m_MultiController
                        THEN m_GamepadMask \cup {s.index}
                        ELSE m_GamepadMask
            IN /\ m_GamepadState' = [m_GamepadState EXCEPT ![i] = s]
               /\ m_GamepadMask' = mask
               /\ out' = <<sendGamepadState(s, mask)>>
    /\ UNCHANGED <<m_MultiController, m_GamepadMouse, axisQueue>>

\* a detach that sends its final event before it clears the slot's mask bit
handleControllerDeviceRemovedStaleMask(which) ==
    LET i == findStateForGamepad(which) IN
    /\ ev' = [type |-> "SDL_CONTROLLERDEVICEREMOVED", which |-> which]
    /\ IF i = NotFound
       THEN /\ out' = <<>>
            /\ UNCHANGED <<m_GamepadState, m_GamepadMask>>
       ELSE LET s == m_GamepadState[i]
            IN /\ m_GamepadMask' = IF m_MultiController
                                   THEN m_GamepadMask \ {s.index}
                                   ELSE m_GamepadMask
               /\ out' = (IF s.mouseEmulationTimer # 0
                          THEN <<notifyMouseEmulationMode(FALSE)>> ELSE <<>>)
                         \o <<SDL_GameControllerClose(s.controller),
                              LiSendMultiControllerEvent(s.index, m_GamepadMask,
                                                         {}, 0, 0, 0, 0, 0, 0)>>
               /\ m_GamepadState' = [m_GamepadState EXCEPT ![i] = ZeroGamepadState]
    /\ UNCHANGED <<m_MultiController, m_GamepadMouse, axisQueue>>

\* SDL_CONTROLLERDEVICEREMOVED for instance id which
handleControllerDeviceRemoved(which) ==
    LET i == findStateForGamepad(which) IN
    /\ ev' = [type |-> "SDL_CONTROLLERDEVICEREMOVED", which |-> which]
    /\ IF i = NotFound
       THEN /\ out' = <<>>
            /\ UNCHANGED <<m_GamepadState, m_GamepadMask>>
       ELSE LET s == m_GamepadState[i]
                mask == IF m_MultiController
                        THEN m_GamepadMask \ {s.index}
                        ELSE m_GamepadMask
            IN /\ m_GamepadMask' = mask
               /\ out' = (IF s.mouseEmulationTimer # 0
                          THEN <<notifyMouseEmulationMode(FALSE)>> ELSE <<>>)
                         \o <<SDL_GameControllerClose(s.controller),
                              LiSendMultiControllerEvent(s.index, mask,
                                                         {}, 0, 0, 0, 0, 0, 0)>>
               /\ m_GamepadState' = [m_GamepadState EXCEPT ![i] = ZeroGamepadState]
    /\ UNCHANGED <<m_MultiController, m_GamepadMouse, axisQueue>>

(***************************************************************************)
(* The gamepad events SDL delivers                                         *)
(***************************************************************************)
\* a joystick arrives: SDL numbers joysticks in arrival order and never reuses
\* an instance id
ControllerDeviceAdded(opened) ==
    /\ nextInstanceId \in InstanceIds
    /\ nextInstanceId' = nextInstanceId + 1
    /\ joysticks' = joysticks \cup {nextInstanceId}
    /\ handleControllerDeviceAdded(nextInstanceId, opened)
    /\ UNCHANGED <<ticks, keyVars, otherVars>>

\* a connected joystick goes away
ControllerDeviceRemoved(which) ==
    /\ which \in joysticks
    /\ joysticks' = joysticks \ {which}
    /\ handleControllerDeviceRemoved(which)
    /\ UNCHANGED <<nextInstanceId, ticks, keyVars, otherVars>>

ControllerButtonEvent(which, button, pressed) ==
    /\ which \in joysticks
    /\ handleControllerButtonEvent(which, button, pressed)
    /\ UNCHANGED <<joysticks, nextInstanceId, ticks, keyVars, otherVars>>

\* an axis event is dispatched while axisQueue holds the axis events behind it
ControllerAxisEvent(which, axis, value) ==
    /\ which \in joysticks
    /\ handleControllerAxisEvent([which |-> which, axis |-> axis, value |-> value],
                                 axisQueue)
    /\ UNCHANGED <<joysticks, nextInstanceId, ticks, keyVars, otherVars>>

\* SDL_GetTicks moves on
AdvanceTicks ==
    /\ ticks + ClockStep <= MaxClockSteps * ClockStep
    /\ ticks' = ticks + ClockStep
    /\ UNCHANGED <<m_MultiController, m_GamepadMouse, m_GamepadMask, m_GamepadState,
                   joysticks, nextInstanceId, axisQueue, keyVars, otherVars, ev, out>>

(***************************************************************************)
(* Construction                                                            *)
(***************************************************************************)
\* SdlInputHandler::SdlInputHandler, gamepad fields
InitGamepads(multiController, gamepadMouse, numControllers) ==
    /\ m_MultiController = multiController
    /\ m_GamepadMouse = gamepadMouse
    /\ m_GamepadMask = getAttachedGamepadMask(multiController, numControllers)
    /\ m_GamepadState = [i \in GamepadSlots |-> ZeroGamepadState]
    /\ joysticks = {}
    /\ nextInstanceId = 0
    /\ ticks = 0
    /\ axisQueue = <<>>

\* SdlInputHandler::SdlInputHandler, keyboard and pointer fields
InitKeyboard(absoluteMouseMode, platform, layout) ==
    /\ m_KeysDown = {}
    /\ m_FakeCaptureActive = FALSE
    /\ m_AbsoluteMouseMode = absoluteMouseMode
    /\ sdlKeysHeld = {}
    /\ relativeMouseMode = FALSE
    /\ windowFullscreen = FALSE
    /\ platformName = platform
    /\ keyboardLayout = layout
    /\ windowFocused = TRUE

\* of m_LastTouchDownEvent the handler reads fingerId, x and y, and of
\* m_LastTouchUpEvent timestamp, x and y: the snapshots keep these fields
TouchDownSnapshot(event) == [fingerId |-> event.fingerId, x |-> event.x, y |-> event.y]
TouchUpSnapshot(event) == [timestamp |-> event.timestamp, x |-> event.x, y |-> event.y]

\* SDL_zero(m_LastTouchDownEvent), SDL_zero(m_LastTouchUpEvent)
ZeroTouchEvent == [fingerId |-> 0, x |-> 0, y |-> 0, timestamp |-> 0]

\* SdlInputHandler::SdlInputHandler, mouse motion and touch fields; the mouse
\* move timer is added and its thread is outside the callback
InitPointer(streamWidth, streamHeight, width, height) ==
    /\ m_StreamWidth = streamWidth
    /\ m_StreamHeight = streamHeight
    /\ windowWidth = width
    /\ windowHeight = height
    /\ m_MouseDeltaX = 0
    /\ m_MouseDeltaY = 0
    /\ m_LastTouchDownEvent = TouchDownSnapshot(ZeroTouchEvent)
    /\ m_LastTouchUpEvent = TouchUpSnapshot(ZeroTouchEvent)
    /\ m_LongPressTimer = 0
    /\ motionPc = "idle"
    /\ motionEvent = [type |-> "none"]
    /\ timerPc = "idle"
    /\ deltaX = 0
    /\ deltaY = 0
    /\ fingersDown = {}
    /\ longPressPending = FALSE
    /\ longPressDeadline = 0
    /\ acceptedX = 0
    /\ acceptedY = 0
    /\ sentX = 0
    /\ sentY = 0
    /\ deltasInRange = TRUE
    /\ motionCount = 0

\* no image has been imported into the texture
NoImage == [layer |-> -1, fd |-> -1]

\* no matrix has been uploaded
NoMatrix == <<>>

\* EGLRenderer::EGLRenderer and a successful EGLRenderer::initialize
InitRenderer ==
    /\ m_SwPixelFormat = "AV_PIX_FMT_NONE"
    /\ m_shader_program = 0
    /\ VAO = 0
    /\ glCurrentProgram = 0
    /\ yuvmat = NoMatrix
    /\ textures = <<NoImage, NoImage>>
    /\ openFds = {}

\* a 1080p stream in a window of a quarter of its size
\* the host when the session starts: nothing is held
InitHost ==
    /\ hostMouseButtons = {}
    /\ hostKeysDown = {}

\* the SDL timer thread runs no callback
InitThreads == longPressPc = "idle"

\* EGLRenderer::EGLRenderer: no context, no GL object
InitConstructed ==
    /\ rendererPc = "constructed"
    /\ m_context = 0
    /\ glLive = {}
    /\ swapInterval = <<>>
    /\ failedAssertions = {}

\* a successful EGLRenderer::initialize without vsync: the context, the two
\* textures of glGenTextures, SDL_GL_SetSwapInterval(0)
InitInitialized ==
    /\ rendererPc = "initialized"
    /\ m_context = 1
    /\ glLive = {"context", "texture0", "texture1"}
    /\ swapInterval = <<0>>
    /\ failedAssertions = {}

InitOther ==
    /\ InitPointer(1920, 1080, 960, 540)
    /\ InitRenderer
    /\ InitInitialized
    /\ InitHost
    /\ InitThreads

NoEvent == [type |-> "none"]

(***************************************************************************)
(* SpecSlots: attach and detach of every joystick, with one button of the  *)
(* controllers 0..MaxEventId exercised                                     *)
(***************************************************************************)
SlotButtons == {"A"}

InitSlots ==
    /\ \E mc \in BOOLEAN, n \in 0..MaxInitialControllers :
          InitGamepads(mc, FALSE, n)
    /\ InitKeyboard(FALSE, "xcb", "qwerty")
    /\ InitOther
    /\ ev = NoEvent
    /\ out = <<>>

NextSlots ==
    \/ \E opened \in BOOLEAN : ControllerDeviceAdded(opened)
    \/ \E which \in InstanceIds : ControllerDeviceRemoved(which)
    \/ \E which \in EventIds, button \in SlotButtons, pressed \in BOOLEAN :
          ControllerButtonEvent(which, button, pressed)

SpecSlots == InitSlots /\ [][NextSlots]_vars

(***************************************************************************)
(* SpecPad: the controllers 0..MaxEventId arrive and leave; the last of    *)
(* them is exercised with the buttons of the quit combo, one more button,  *)
(* a stick, a trigger and the clock                                        *)
(***************************************************************************)
PadButtons == {"START", "BACK", "LEFTSHOULDER", "RIGHTSHOULDER", "A"}
PadAxisInputs == {<<"LEFTY", -32768>>}

InitPad ==
    /\ \E mc \in BOOLEAN, gm \in BOOLEAN, n \in {0, MaxEventId + 1} :
          InitGamepads(mc, gm, n)
    /\ InitKeyboard(FALSE, "xcb", "qwerty")
    /\ InitOther
    /\ ev = NoEvent
    /\ out = <<>>

NextPad ==
    \/ \E opened \in BOOLEAN : nextInstanceId \in EventIds /\ ControllerDeviceAdded(opened)
    \/ \E which \in EventIds : ControllerDeviceRemoved(which)
    \/ \E button \in PadButtons, pressed \in BOOLEAN :
          ControllerButtonEvent(MaxEventId, button, pressed)
    \/ \E a \in PadAxisInputs : ControllerAxisEvent(MaxEventId, a[1], a[2])
    \/ AdvanceTicks

SpecPad == InitPad /\ [][NextPad]_vars

(***************************************************************************)
(* SpecAxis: two controllers whose axis events wait in SDL's event queue   *)
(* before the event loop dispatches the oldest of them                     *)
(***************************************************************************)
MaxPendingAxisEvents == 3
AxisControllers == {0, 1}
AxisInputs == {<<"LEFTX", 100>>, <<"LEFTX", -200>>, <<"LEFTY", -32768>>}

\* SDL appends an axis event of a connected controller to its queue
AxisMotionQueued(which, axis, value) ==
    /\ which \in joysticks
    /\ Len(axisQueue) < MaxPendingAxisEvents
    /\ axisQueue' = Append(axisQueue, [which |-> which, axis |-> axis, value |-> value])
    /\ ev' = NoEvent
    /\ out' = <<>>
    /\ UNCHANGED <<m_MultiController, m_GamepadMouse, m_GamepadMask, m_GamepadState,
                   joysticks, nextInstanceId, ticks, keyVars, otherVars>>

\* the event loop polls the oldest axis event and calls the handler with it;
\* the rest of the queue is what SDL_PeepEvents sees
PendingAxisEventDispatched ==
    /\ axisQueue # <<>>
    /\ handleControllerAxisEvent(Head(axisQueue), Tail(axisQueue))
    /\ UNCHANGED <<joysticks, nextInstanceId, ticks, keyVars, otherVars>>

InitAxis ==
    /\ \E mc \in BOOLEAN : InitGamepads(mc, FALSE, Cardinality(AxisControllers))
    /\ InitKeyboard(FALSE, "xcb", "qwerty")
    /\ InitOther
    /\ ev = NoEvent
    /\ out = <<>>

NextAxis ==
    \/ nextInstanceId \in AxisControllers /\ ControllerDeviceAdded(TRUE)
    \/ \E which \in AxisControllers, a \in AxisInputs : AxisMotionQueued(which, a[1], a[2])
    \/ PendingAxisEventDispatched

SpecAxis == InitAxis /\ [][NextAxis]_vars

(***************************************************************************)
(* ~SdlInputHandler                                                        *)
(***************************************************************************)
\* SDL_RemoveTimer of the timer a field holds (slot -1: a field of the handler)
SDL_RemoveTimer(field, slot, timer) ==
    [type |-> "SDL_RemoveTimer", field |-> field, slot |-> slot, timer |-> timer]

\* a destructor loop that only closes the controllers
RECURSIVE DestructorSlotCallsCloseOnly(_)
DestructorSlotCallsCloseOnly(i) ==
    IF i >= MAX_GAMEPADS THEN <<>>
    ELSE (IF m_GamepadState[i].controller # NULL
          THEN <<SDL_GameControllerClose(m_GamepadState[i].controller)>>
          ELSE <<>>)
         \o DestructorSlotCallsCloseOnly(i + 1)

\* the loop over the slots, from slot i on: the calls made
RECURSIVE DestructorSlotCalls(_)
DestructorSlotCalls(i) ==
    IF i >= MAX_GAMEPADS THEN <<>>
    ELSE (IF m_GamepadState[i].mouseEmulationTimer # 0
          THEN <<notifyMouseEmulationMode(FALSE),
                 SDL_RemoveTimer("mouseEmulationTimer", i,
                                 m_GamepadState[i].mouseEmulationTimer)>>
          ELSE <<>>)
         \o (IF m_GamepadState[i].controller # NULL
             THEN <<SDL_GameControllerClose(m_GamepadState[i].controller)>>
             ELSE <<>>)
         \o DestructorSlotCalls(i + 1)

\* the event loop runs handlers until the handler object is destroyed
HandlerAlive == ev.type # "~SdlInputHandler"

\* the destructor: the fields are left as they are, the object is gone
DestroyInputHandler ==
    /\ HandlerAlive
    /\ ev' = [type |-> "~SdlInputHandler"]
    /\ out' = DestructorSlotCalls(0)
                 \o <<SDL_RemoveTimer("m_MouseMoveTimer", -1, 1),
                      SDL_RemoveTimer("m_LongPressTimer", -1, m_LongPressTimer)>>
    /\ UNCHANGED <<padVars, keyVars, otherVars>>

(***************************************************************************)
(* SpecEmu: one controller at a time with mouse emulation, seen from the   *)
(* host: Start, two buttons emulation maps to pointer buttons, the clock,  *)
(* detach and the destruction of the handler                               *)
(***************************************************************************)
EmuButtons == {"START", "A", "LEFTSHOULDER"}

\* the pointer buttons held on the host after calls reach it
RECURSIVE HostMouseButtonsAfter(_, _)
HostMouseButtonsAfter(held, calls) ==
    IF calls = <<>> THEN held
    ELSE LET c == Head(calls) IN
         HostMouseButtonsAfter(
             IF c.type # "LiSendMouseButtonEvent" THEN held
             ELSE IF c.action \in {"PRESS", "BUTTON_ACTION_PRESS"}
             THEN held \cup {c.button}
             ELSE held \ {c.button},
             Tail(calls))

\* a button event of a connected controller, the host observing the calls
EmuButtonEvent(which, button, pressed) ==
    /\ HandlerAlive
    /\ which \in joysticks
    /\ handleControllerButtonEvent(which, button, pressed)
    /\ hostMouseButtons' = HostMouseButtonsAfter(hostMouseButtons, out')
    /\ UNCHANGED <<joysticks, nextInstanceId, ticks, keyVars, ptrVars, eglVars, glVars,
                   hostKeysDown, threadVars>>

InitEmu ==
    /\ \E mc \in BOOLEAN : InitGamepads(mc, TRUE, 1)
    /\ InitKeyboard(FALSE, "xcb", "qwerty")
    /\ InitOther
    /\ ev = NoEvent
    /\ out = <<>>

NextEmu ==
    \/ /\ HandlerAlive
       /\ joysticks = {}
       /\ nextInstanceId \in EventIds
       /\ ControllerDeviceAdded(TRUE)
    \/ \E which \in EventIds : HandlerAlive /\ ControllerDeviceRemoved(which)
    \/ \E which \in EventIds, button \in EmuButtons, pressed \in BOOLEAN :
          EmuButtonEvent(which, button, pressed)
    \/ HandlerAlive /\ AdvanceTicks
    \/ DestroyInputHandler

SpecEmu == InitEmu /\ [][NextEmu]_vars

(***************************************************************************)
(* Keyboard: scancodes, key symbols, modifiers                             *)
(***************************************************************************)
\* SDL_Scancode values of the scancodes the handler names
SC ==
    [A |-> 4, M |-> 16, Q |-> 20, S |-> 22, W |-> 26, X |-> 27, Z |-> 29,
     N1 |-> 30, N9 |-> 38, N0 |-> 39,
     RETURN |-> 40, ESCAPE |-> 41, BACKSPACE |-> 42, TAB |-> 43, SPACE |-> 44,
     MINUS |-> 45, EQUALS |-> 46, LEFTBRACKET |-> 47, RIGHTBRACKET |-> 48,
     BACKSLASH |-> 49, SEMICOLON |-> 51, APOSTROPHE |-> 52, GRAVE |-> 53,
     COMMA |-> 54, PERIOD |-> 55, SLASH |-> 56, CAPSLOCK |-> 57,
     F1 |-> 58, F12 |-> 69, PRINTSCREEN |-> 70, SCROLLLOCK |-> 71, PAUSE |-> 72,
     INSERT |-> 73, HOME |-> 74, PAGEUP |-> 75, DELETE |-> 76, END |-> 77,
     PAGEDOWN |-> 78, RIGHT |-> 79, LEFT |-> 80, DOWN |-> 81, UP |-> 82,
     NUMLOCKCLEAR |-> 83, KP_DIVIDE |-> 84, KP_MULTIPLY |-> 85, KP_MINUS |-> 86,
     KP_PLUS |-> 87, KP_ENTER |-> 88, KP_1 |-> 89, KP_9 |-> 97, KP_0 |-> 98,
     KP_PERIOD |-> 99, NONUSBACKSLASH |-> 100, F13 |-> 104, F24 |-> 115,
     EXECUTE |-> 116, HELP |-> 117, SELECT |-> 119, KP_COMMA |-> 133,
     CLEAR |-> 156, LCTRL |-> 224, LSHIFT |-> 225, LALT |-> 226, LGUI |-> 227,
     RCTRL |-> 228, RSHIFT |-> 229, RALT |-> 230, RGUI |-> 231,
     AC_SEARCH |-> 268, AC_HOME |-> 269, AC_BACK |-> 270, AC_FORWARD |-> 271,
     AC_STOP |-> 272, AC_REFRESH |-> 273, AC_BOOKMARKS |-> 274]

Unhandled == -1

\* the switch of handleKeyEvent over the scancodes outside the four ranges
KeyCodeSwitch(sc) ==
    CASE sc = SC.BACKSPACE -> 8
      [] sc = SC.TAB -> 9
      [] sc = SC.CLEAR -> 12
      [] sc = SC.KP_ENTER -> 13
      [] sc = SC.RETURN -> 13
      [] sc = SC.PAUSE -> 19
      [] sc = SC.CAPSLOCK -> 20
      [] sc = SC.ESCAPE -> 27
      [] sc = SC.SPACE -> 32
      [] sc = SC.PAGEUP -> 33
      [] sc = SC.PAGEDOWN -> 34
      [] sc = SC.END -> 35
      [] sc = SC.HOME -> 36
      [] sc = SC.LEFT -> 37
      [] sc = SC.UP -> 38
      [] sc = SC.RIGHT -> 39
      [] sc = SC.DOWN -> 40
      [] sc = SC.SELECT -> 41
      [] sc = SC.EXECUTE -> 43
      [] sc = SC.PRINTSCREEN -> 44
      [] sc = SC.INSERT -> 45
      [] sc = SC.DELETE -> 46
      [] sc = SC.HELP -> 47
      [] sc = SC.KP_0 -> VK_NUMPAD0
      [] sc = SC.N0 -> VK_0
      [] sc = SC.KP_MULTIPLY -> 106
      [] sc = SC.KP_PLUS -> 107
      [] sc = SC.KP_COMMA -> 108
      [] sc = SC.KP_MINUS -> 109
      [] sc = SC.KP_PERIOD -> 110
      [] sc = SC.KP_DIVIDE -> 111
      [] sc = SC.NUMLOCKCLEAR -> 144
      [] sc = SC.SCROLLLOCK -> 145
      [] sc = SC.LSHIFT -> 160
      [] sc = SC.RSHIFT -> 161
      [] sc = SC.LCTRL -> 162
      [] sc = SC.RCTRL -> 163
      [] sc = SC.LALT -> 164
      [] sc = SC.RALT -> 165
      [] sc = SC.AC_BACK -> 166
      [] sc = SC.AC_FORWARD -> 167
      [] sc = SC.AC_REFRESH -> 168
      [] sc = SC.AC_STOP -> 169
      [] sc = SC.AC_SEARCH -> 170
      [] sc = SC.AC_BOOKMARKS -> 171
      [] sc = SC.AC_HOME -> 172
      [] sc = SC.SEMICOLON -> 186
      [] sc = SC.EQUALS -> 187
      [] sc = SC.COMMA -> 188
      [] sc = SC.MINUS -> 189
      [] sc = SC.PERIOD -> 190
      [] sc = SC.SLASH -> 191
      [] sc = SC.GRAVE -> 192
      [] sc = SC.LEFTBRACKET -> 219
      [] sc = SC.BACKSLASH -> 220
      [] sc = SC.RIGHTBRACKET -> 221
      [] sc = SC.APOSTROPHE -> 222
      [] sc = SC.NONUSBACKSLASH -> 226
      [] OTHER -> Unhandled

\* scancode -> virtual key code sent to the host, or Unhandled
KeyCodeFor(sc) ==
    IF sc >= SC.N1 /\ sc <= SC.N9 THEN (sc - SC.N1) + VK_0 + 1
    ELSE IF sc >= SC.A /\ sc <= SC.Z THEN (sc - SC.A) + VK_A
    ELSE IF sc >= SC.F1 /\ sc <= SC.F12 THEN (sc - SC.F1) + VK_F1
    ELSE IF sc >= SC.F13 /\ sc <= SC.F24 THEN (sc - SC.F13) + VK_F13
    ELSE IF sc >= SC.KP_1 /\ sc <= SC.KP_9 THEN (sc - SC.KP_1) + VK_NUMPAD0 + 1
    ELSE KeyCodeSwitch(sc)

\* keysym.sym of a scancode under the keyboard layout, for the keys that
\* the two layouts of the model place differently; "" for any other key
KeySym(layout, sc) ==
    IF layout = "azerty"
    THEN CASE sc = SC.A -> "q"
           [] sc = SC.Q -> "a"
           [] sc = SC.Z -> "w"
           [] sc = SC.W -> "z"
           [] sc = SC.SEMICOLON -> "m"
           [] sc = SC.X -> "x"
           [] sc = SC.S -> "s"
           [] OTHER -> ""
    ELSE CASE sc = SC.A -> "a"
           [] sc = SC.Q -> "q"
           [] sc = SC.Z -> "z"
           [] sc = SC.W -> "w"
           [] sc = SC.M -> "m"
           [] sc = SC.X -> "x"
           [] sc = SC.S -> "s"
           [] OTHER -> ""

\* keysym.mod: the modifiers SDL derives from the modifier keys held
KeyMod(held) ==
    {m \in {"CTRL", "ALT", "SHIFT", "GUI"} :
        \/ m = "CTRL" /\ (SC.LCTRL \in held \/ SC.RCTRL \in held)
        \/ m = "ALT" /\ (SC.LALT \in held \/ SC.RALT \in held)
        \/ m = "SHIFT" /\ (SC.LSHIFT \in held \/ SC.RSHIFT \in held)
        \/ m = "GUI" /\ (SC.LGUI \in held \/ SC.RGUI \in held)}

\* the modifier flags sent to the host
ModifierFlags(mod) ==
    {f \in {"MODIFIER_CTRL", "MODIFIER_ALT", "MODIFIER_SHIFT", "MODIFIER_META"} :
        \/ f = "MODIFIER_CTRL" /\ "CTRL" \in mod
        \/ f = "MODIFIER_ALT" /\ "ALT" \in mod
        \/ f = "MODIFIER_SHIFT" /\ "SHIFT" \in mod
        \/ f = "MODIFIER_META" /\ "GUI" \in mod}

(***************************************************************************)
(* Pointer capture                                                         *)
(***************************************************************************)
\* a capture test that takes the pointer for captured at all times
isCaptureActiveAlways(cap) == TRUE

\* cap is [fake |-> m_FakeCaptureActive, rel |-> SDL's relative mouse mode]
isCaptureActive(cap) ==
    IF cap.rel THEN TRUE ELSE cap.fake

\* granted: whether SDL_SetRelativeMouseMode(SDL_TRUE) succeeds when it
\* has to switch the mode on (it succeeds trivially when already on)
setCaptureActive(cap, absoluteMouseMode, active, granted) ==
    IF active
    THEN IF absoluteMouseMode \/ ~(cap.rel \/ granted)
         THEN [cap EXCEPT !.fake = TRUE]
         ELSE [cap EXCEPT !.rel = TRUE]
    ELSE IF cap.fake
         THEN [cap EXCEPT !.fake = FALSE]
         ELSE [cap EXCEPT !.rel = FALSE]

Capture == [fake |-> m_FakeCaptureActive, rel |-> relativeMouseMode]

(***************************************************************************)
(* Keyboard handler                                                        *)
(***************************************************************************)
RECURSIVE KeysInOrder(_)
\* the elements of a set of key codes as a sequence; QSet leaves the
\* iteration order open, ascending key code stands for it
KeysInOrder(keys) ==
    IF keys = {} THEN <<>>
    ELSE LET k == CHOOSE x \in keys : \A y \in keys : x <= y
         IN <<k>> \o KeysInOrder(keys \ {k})

\* a raiseAllKeys that leaves out one of the keys
raiseAllKeysButOne(keysDown) ==
    IF keysDown = {} THEN <<>>
    ELSE LET order == Tail(KeysInOrder(keysDown))
         IN [i \in 1..Len(order) |-> LiSendKeyboardEvent(order[i], "KEY_ACTION_UP", {})]

\* the calls raiseAllKeys makes; it leaves m_KeysDown empty
raiseAllKeys(keysDown) ==
    IF keysDown = {} THEN <<>>
    ELSE LET order == KeysInOrder(keysDown)
         IN [i \in 1..Len(order) |-> LiSendKeyboardEvent(order[i], "KEY_ACTION_UP", {})]

\* a combo chain that matches key symbols only
KeyComboBySymbolOnly(event, platform) ==
    IF ~(event.state = "SDL_PRESSED" /\ {"CTRL", "ALT", "SHIFT"} \subseteq event.mod)
    THEN ""
    ELSE IF event.sym = "q" THEN "quit"
    ELSE IF event.sym = "z" /\ platform # "eglfs" THEN "capture"
    ELSE IF event.sym = "m" /\ platform # "eglfs" THEN "mousemode"
    ELSE IF event.sym = "x" /\ platform # "eglfs" THEN "fullscreen"
    ELSE IF event.sym = "s" THEN "overlay"
    ELSE ""

\* a combo chain that does not ask for the platform
KeyComboOnAnyPlatform(event, platform) ==
    IF ~(event.state = "SDL_PRESSED" /\ {"CTRL", "ALT", "SHIFT"} \subseteq event.mod)
    THEN ""
    ELSE IF event.sym = "q" THEN "quit"
    ELSE IF event.sym = "z" THEN "capture"
    ELSE IF event.sym = "m" THEN "mousemode"
    ELSE IF event.sym = "x" THEN "fullscreen"
    ELSE IF event.sym = "s" THEN "overlay"
    ELSE IF event.scancode = SC.Q THEN "quit"
    ELSE IF event.scancode = SC.Z THEN "capture"
    ELSE IF event.scancode = SC.X THEN "fullscreen"
    ELSE IF event.scancode = SC.M THEN "mousemode"
    ELSE IF event.scancode = SC.S THEN "overlay"
    ELSE ""

\* the branch of the special key combo chain an event takes, "" for none
KeyCombo(event, platform) ==
    IF ~(event.state = "SDL_PRESSED" /\ {"CTRL", "ALT", "SHIFT"} \subseteq event.mod)
    THEN ""
    ELSE IF event.sym = "q" THEN "quit"
    ELSE IF event.sym = "z" /\ platform # "eglfs" THEN "capture"
    ELSE IF event.sym = "m" /\ platform # "eglfs" THEN "mousemode"
    ELSE IF event.sym = "x" /\ platform # "eglfs" THEN "fullscreen"
    ELSE IF event.sym = "s" THEN "overlay"
    ELSE IF event.scancode = SC.Q THEN "quit"
    ELSE IF event.scancode = SC.Z /\ platform # "eglfs" THEN "capture"
    ELSE IF event.scancode = SC.X /\ platform # "eglfs" THEN "fullscreen"
    ELSE IF event.scancode = SC.M /\ platform # "eglfs" THEN "mousemode"
    ELSE IF event.scancode = SC.S THEN "overlay"
    ELSE ""

ToggleOverlay == [type |-> "setOverlayState"]

\* a test that lets auto-repeats through
IgnoredKeyEventUnmappedOnly(event, keyCode) == keyCode = Unhandled

\* past the combos: the event is an auto-repeat, or its scancode has no key
\* code; the handler returns without sending
IgnoredKeyEvent(event, keyCode) == event.repeat \/ keyCode = Unhandled

handleKeyEvent(event, granted) ==
    LET combo == KeyCombo(event, platformName)
        keyCode == KeyCodeFor(event.scancode)
    IN
    /\ ev' = event
    /\ IF combo = "quit"
       THEN /\ out' = <<PushQuitEvent>>
            /\ UNCHANGED <<m_KeysDown, m_FakeCaptureActive, relativeMouseMode,
                           m_AbsoluteMouseMode, windowFullscreen>>
       ELSE IF combo = "capture"
       THEN LET cap == setCaptureActive(Capture, m_AbsoluteMouseMode,
                                        ~isCaptureActive(Capture), granted)
            IN /\ m_FakeCaptureActive' = cap.fake
               /\ relativeMouseMode' = cap.rel
               /\ out' = raiseAllKeys(m_KeysDown)
               /\ m_KeysDown' = {}
               /\ UNCHANGED <<m_AbsoluteMouseMode, windowFullscreen>>
       ELSE IF combo = "mousemode"
       THEN LET uncaptured == setCaptureActive(Capture, m_AbsoluteMouseMode, FALSE, granted)
                cap == setCaptureActive(uncaptured, ~m_AbsoluteMouseMode, TRUE, granted)
            IN /\ m_AbsoluteMouseMode' = ~m_AbsoluteMouseMode
               /\ m_FakeCaptureActive' = cap.fake
               /\ relativeMouseMode' = cap.rel
               /\ out' = <<>>
               /\ UNCHANGED <<m_KeysDown, windowFullscreen>>
       ELSE IF combo = "fullscreen"
       THEN /\ windowFullscreen' = ~windowFullscreen
            /\ out' = raiseAllKeys(m_KeysDown)
            /\ m_KeysDown' = {}
            /\ UNCHANGED <<m_FakeCaptureActive, relativeMouseMode, m_AbsoluteMouseMode>>
       ELSE IF combo = "overlay"
       THEN /\ out' = <<ToggleOverlay>> \o raiseAllKeys(m_KeysDown)
            /\ m_KeysDown' = {}
            /\ UNCHANGED <<m_FakeCaptureActive, relativeMouseMode,
                           m_AbsoluteMouseMode, windowFullscreen>>
       ELSE IF IgnoredKeyEvent(event, keyCode)
       THEN /\ out' = <<>>
            /\ UNCHANGED <<m_KeysDown, m_FakeCaptureActive, relativeMouseMode,
                           m_AbsoluteMouseMode, windowFullscreen>>
       ELSE /\ m_KeysDown' = IF event.state = "SDL_PRESSED"
                             THEN m_KeysDown \cup {keyCode}
                             ELSE m_KeysDown \ {keyCode}
            /\ out' = <<LiSendKeyboardEvent(keyCode,
                            IF event.state = "SDL_PRESSED"
                            THEN "KEY_ACTION_DOWN" ELSE "KEY_ACTION_UP",
                            ModifierFlags(event.mod))>>
            /\ UNCHANGED <<m_FakeCaptureActive, relativeMouseMode,
                           m_AbsoluteMouseMode, windowFullscreen>>

notifyFocusLost ==
    LET cap == IF ~windowFullscreen /\ ~m_AbsoluteMouseMode
               THEN setCaptureActive(Capture, m_AbsoluteMouseMode, FALSE, FALSE)
               ELSE Capture
    IN
    /\ ev' = [type |-> "SDL_WINDOWEVENT_FOCUS_LOST"]
    /\ m_FakeCaptureActive' = cap.fake
    /\ relativeMouseMode' = cap.rel
    /\ out' = raiseAllKeys(m_KeysDown)
    /\ m_KeysDown' = {}
    /\ UNCHANGED <<m_AbsoluteMouseMode, windowFullscreen>>

(***************************************************************************)
(* Mouse button handler                                                    *)
(***************************************************************************)
SDL_TOUCH_MOUSEID == -1

\* SDL button -> button sent to the host, "" for a button the switch
\* does not handle
MouseButtonFor(button) ==
    CASE button = "SDL_BUTTON_LEFT" -> "BUTTON_LEFT"
      [] button = "SDL_BUTTON_MIDDLE" -> "BUTTON_MIDDLE"
      [] button = "SDL_BUTTON_RIGHT" -> "BUTTON_RIGHT"
      [] button = "SDL_BUTTON_X1" -> "BUTTON_X1"
      [] button = "SDL_BUTTON_X2" -> "BUTTON_X2"
      [] OTHER -> ""

handleMouseButtonEvent(event, granted) ==
    /\ ev' = event
    /\ IF event.which = SDL_TOUCH_MOUSEID
       THEN /\ out' = <<>>
            /\ UNCHANGED <<m_FakeCaptureActive, relativeMouseMode>>
       ELSE IF ~isCaptureActive(Capture)
       THEN LET cap == IF event.button = "SDL_BUTTON_LEFT" /\ event.state = "SDL_RELEASED"
                       THEN setCaptureActive(Capture, m_AbsoluteMouseMode, TRUE, granted)
                       ELSE Capture
            IN /\ m_FakeCaptureActive' = cap.fake
               /\ relativeMouseMode' = cap.rel
               /\ out' = <<>>
       ELSE /\ out' = IF MouseButtonFor(event.button) = "" THEN <<>>
                      ELSE <<LiSendMouseButtonEvent(
                                 IF event.state = "SDL_PRESSED"
                                 THEN "BUTTON_ACTION_PRESS" ELSE "BUTTON_ACTION_RELEASE",
                                 MouseButtonFor(event.button))>>
            /\ UNCHANGED <<m_FakeCaptureActive, relativeMouseMode>>
    /\ UNCHANGED <<m_KeysDown, m_AbsoluteMouseMode, windowFullscreen>>

(***************************************************************************)
(* Keyboard, focus and mouse button events as SDL delivers them            *)
(***************************************************************************)
\* the key codes held on the host after calls reach it
RECURSIVE HostKeysDownAfter(_, _)
HostKeysDownAfter(held, calls) ==
    IF calls = <<>> THEN held
    ELSE LET c == Head(calls) IN
         HostKeysDownAfter(
             IF c.type # "LiSendKeyboardEvent" THEN held
             ELSE IF c.action = "KEY_ACTION_DOWN" THEN held \cup {c.keyCode}
             ELSE held \ {c.keyCode},
             Tail(calls))

KeyboardEvent(scancode, held, state, repeat) ==
    [type |-> "key", scancode |-> scancode, sym |-> KeySym(keyboardLayout, scancode),
     mod |-> KeyMod(held), state |-> state, repeat |-> repeat]

\* a key goes down; SDL has the modifier state include the key itself
KeyDown(scancode, granted) ==
    /\ scancode \notin sdlKeysHeld
    /\ Cardinality(sdlKeysHeld) < MaxKeysHeld
    /\ sdlKeysHeld' = sdlKeysHeld \cup {scancode}
    /\ handleKeyEvent(KeyboardEvent(scancode, sdlKeysHeld', "SDL_PRESSED", FALSE), granted)
    /\ hostKeysDown' = HostKeysDownAfter(hostKeysDown, out')
    /\ UNCHANGED <<padVars, ptrVars, eglVars, glVars, hostMouseButtons, threadVars, platformName, keyboardLayout, windowFocused>>

\* a held key auto-repeats
KeyRepeat(scancode, granted) ==
    /\ scancode \in sdlKeysHeld
    /\ handleKeyEvent(KeyboardEvent(scancode, sdlKeysHeld, "SDL_PRESSED", TRUE), granted)
    /\ hostKeysDown' = HostKeysDownAfter(hostKeysDown, out')
    /\ UNCHANGED <<padVars, ptrVars, eglVars, glVars, hostMouseButtons, threadVars, sdlKeysHeld, platformName, keyboardLayout, windowFocused>>

KeyUp(scancode) ==
    /\ scancode \in sdlKeysHeld
    /\ sdlKeysHeld' = sdlKeysHeld \ {scancode}
    /\ handleKeyEvent(KeyboardEvent(scancode, sdlKeysHeld', "SDL_RELEASED", FALSE), FALSE)
    /\ hostKeysDown' = HostKeysDownAfter(hostKeysDown, out')
    /\ UNCHANGED <<padVars, ptrVars, eglVars, glVars, hostMouseButtons, threadVars, platformName, keyboardLayout, windowFocused>>

FocusLost ==
    /\ notifyFocusLost
    /\ hostKeysDown' = HostKeysDownAfter(hostKeysDown, out')
    /\ UNCHANGED <<padVars, ptrVars, eglVars, glVars, hostMouseButtons, threadVars, sdlKeysHeld, platformName, keyboardLayout, windowFocused>>

MouseButtonEvent(which, button, state, granted) ==
    /\ handleMouseButtonEvent([type |-> "mouseButton", which |-> which,
                               button |-> button, state |-> state], granted)
    /\ UNCHANGED <<padVars, otherVars, sdlKeysHeld, platformName, keyboardLayout, windowFocused>>

(***************************************************************************)
(* SpecKeys: keys pressed, auto-repeated and released in any order, with   *)
(* focus losses, on a QWERTY keyboard under a window manager               *)
(***************************************************************************)
KeyboardKeys == {SC.LCTRL, SC.LALT, SC.LSHIFT, SC.S, SC.Z, SC.A, SC.LGUI}

KeyboardInput(keys) ==
    \/ \E scancode \in keys, granted \in BOOLEAN : KeyDown(scancode, granted)
    \/ \E scancode \in keys, granted \in BOOLEAN : KeyRepeat(scancode, granted)
    \/ \E scancode \in keys : KeyUp(scancode)

InitKeys ==
    /\ InitGamepads(FALSE, FALSE, 0)
    /\ \E absoluteMouseMode \in BOOLEAN : InitKeyboard(absoluteMouseMode, "xcb", "qwerty")
    /\ InitOther
    /\ ev = NoEvent
    /\ out = <<>>

NextKeys ==
    \/ KeyboardInput(KeyboardKeys)
    \/ FocusLost

SpecKeys == InitKeys /\ [][NextKeys]_vars

(***************************************************************************)
(* SpecCombo: the keys of the special combos, one letter at a time, on     *)
(* both keyboard layouts, with and without a window manager                *)
(***************************************************************************)
ComboModifiers == {SC.LCTRL, SC.LALT, SC.LSHIFT}

ComboLetters == {SC.Q, SC.Z, SC.M, SC.X, SC.S, SC.A}

InitCombo ==
    /\ InitGamepads(FALSE, FALSE, 0)
    /\ \E platform \in {"xcb", "eglfs"}, layout \in {"qwerty", "azerty"} :
           InitKeyboard(FALSE, platform, layout)
    /\ InitOther
    /\ ev = NoEvent
    /\ out = <<>>

\* the letters are pressed one at a time
NextCombo ==
    \/ KeyboardInput(ComboModifiers)
    \/ /\ sdlKeysHeld \cap ComboLetters = {}
       /\ \E scancode \in ComboLetters, granted \in BOOLEAN : KeyDown(scancode, granted)
    \/ \E scancode \in ComboLetters, granted \in BOOLEAN : KeyRepeat(scancode, granted)
    \/ \E scancode \in ComboLetters : KeyUp(scancode)

SpecCombo == InitCombo /\ [][NextCombo]_vars

(***************************************************************************)
(* SpecMouse: mouse buttons of a real mouse and of the touch screen, focus *)
(* losses, and the keys of the capture and mouse mode combos               *)
(***************************************************************************)
MouseIds == {0, SDL_TOUCH_MOUSEID}

MouseButtons == {"SDL_BUTTON_LEFT", "SDL_BUTTON_RIGHT", "SDL_BUTTON_X2", "button 6"}

MouseKeys == {SC.LCTRL, SC.LALT, SC.LSHIFT, SC.Z, SC.M}

InitMouse ==
    /\ InitGamepads(FALSE, FALSE, 0)
    /\ \E absoluteMouseMode \in BOOLEAN : InitKeyboard(absoluteMouseMode, "xcb", "qwerty")
    /\ InitOther
    /\ ev = NoEvent
    /\ out = <<>>

NextMouse ==
    \/ \E which \in MouseIds, button \in MouseButtons,
          state \in {"SDL_PRESSED", "SDL_RELEASED"}, granted \in BOOLEAN :
           MouseButtonEvent(which, button, state, granted)
    \/ FocusLost
    \/ KeyboardInput(MouseKeys)

SpecMouse == InitMouse /\ [][NextMouse]_vars

(***************************************************************************)
(* Properties of the gamepad slot table                                    *)
(***************************************************************************)
Populated(i) == m_GamepadState[i].controller # NULL

\* the controller events among a sequence of calls
ControllerEvents(calls) ==
    {k \in 1..Len(calls) : calls[k].type = "LiSendMultiControllerEvent"}

\* the step is an attach whose controller opened
AttachStep == ev'.type = "SDL_CONTROLLERDEVICEADDED" /\ ev'.opened

\* C1: an attach that finds a free slot puts the controller into the lowest
\* free slot: the slot it populates was free, every slot below it was
\* populated, and no other slot changes.
C1_AttachTakesLowestFreeSlot ==
    [][(AttachStep /\ \E i \in GamepadSlots : ~Populated(i))
        => \E i \in GamepadSlots :
              /\ ~Populated(i)
              /\ \A j \in GamepadSlots : j < i => Populated(j)
              /\ m_GamepadState'[i].controller = ControllerOf(ev'.which)
              /\ m_GamepadState'[i].jsId = ev'.which
              /\ \A j \in GamepadSlots : j # i => m_GamepadState'[j] = m_GamepadState[j]]_vars

\* an attach has just filled the hole at slot 1 while slot 3 was free too
C1_Witness ==
    /\ ev.type = "SDL_CONTROLLERDEVICEADDED" /\ ev.opened
    /\ m_GamepadState[1].jsId = ev.which /\ Populated(1)
    /\ Populated(0) /\ Populated(2) /\ ~Populated(3)
    /\ m_GamepadState[2].jsId < ev.which

\* C3: a button event that leaves the slot's buttons at exactly
\* Start+Select+L1+R1 pushes the quit event and sends one controller event,
\* for the slot's player index, with no buttons and zero triggers and sticks,
\* whatever the slot's stored values are.
C3_QuitComboSendsZeroState ==
    [][(/\ ticks' = ticks
        /\ ev'.type = "SDL_CONTROLLERBUTTON"
        /\ findStateForGamepad(ev'.which) # NotFound
        /\ m_GamepadState'[findStateForGamepad(ev'.which)].buttons = QuitCombo)
        => /\ \E k \in 1..Len(out') : out'[k] = PushQuitEvent
           /\ \E k \in 1..Len(out') :
                 /\ ControllerEvents(out') = {k}
                 /\ out'[k] = LiSendMultiControllerEvent(
                                  m_GamepadState'[findStateForGamepad(ev'.which)].index,
                                  m_GamepadMask, {}, 0, 0, 0, 0, 0, 0)]_vars

\* the quit combo has just been completed on a controller whose left stick
\* is deflected
C3_Witness ==
    /\ ev.type = "SDL_CONTROLLERBUTTON" /\ ev.pressed
    /\ \E i \in GamepadSlots :
          /\ Populated(i) /\ m_GamepadState[i].jsId = ev.which
          /\ m_GamepadState[i].buttons = QuitCombo
          /\ m_GamepadState[i].lsY # 0
    /\ Len(out) = 2 /\ out[1] = PushQuitEvent

\* C4 as stated: in multi-controller mode bit i of the mask is set exactly
\* when slot i is populated, in every state.
C4_MaskBitIffPopulated ==
    m_MultiController => \A i \in GamepadSlots : (i \in m_GamepadMask) <=> Populated(i)

\* C4: in multi-controller mode an attach that populates slot i adds bit i
\* to the mask, leaves the other bits as they are (bits set at construction
\* for controllers not attached yet stay set), and sends one arrival event,
\* for player index i, that carries the mask as updated.
C4_AttachSetsBitAndSendsMask ==
    [][(AttachStep /\ m_MultiController /\ \E i \in GamepadSlots : ~Populated(i))
        => \E i \in GamepadSlots :
              /\ ~Populated(i) /\ m_GamepadState'[i].controller # NULL
              /\ m_GamepadMask' = m_GamepadMask \cup {i}
              /\ Len(out') = 1
              /\ out'[1].type = "LiSendMultiControllerEvent"
              /\ out'[1].index = i
              /\ out'[1].mask = m_GamepadMask']_vars

\* the first attach after a start with two controllers listed: the arrival
\* event carries bit 1 while slot 1 is empty
C4_Witness ==
    /\ m_MultiController
    /\ ev.type = "SDL_CONTROLLERDEVICEADDED" /\ ev.opened
    /\ Populated(0) /\ m_GamepadState[0].jsId = ev.which /\ ~Populated(1)
    /\ Len(out) = 1 /\ out[1].mask = {0, 1}

\* C5: an attach while all four slots are populated closes the controller
\* and does nothing else: no slot, player index or mask bit changes and no
\* controller event is sent; never more than MAX_GAMEPADS slots are populated.
C5_AttachRejectedWhenFull ==
    [][/\ (AttachStep /\ \A i \in GamepadSlots : Populated(i))
          => /\ out' = <<SDL_GameControllerClose(ControllerOf(ev'.which))>>
             /\ m_GamepadState' = m_GamepadState
             /\ m_GamepadMask' = m_GamepadMask
       /\ Cardinality({i \in DOMAIN m_GamepadState' : m_GamepadState'[i].controller # NULL})
             <= MAX_GAMEPADS]_vars

\* a fifth controller has just been turned away
C5_Witness ==
    /\ ev.type = "SDL_CONTROLLERDEVICEADDED" /\ ev.opened
    /\ \A i \in GamepadSlots : Populated(i) /\ m_GamepadState[i].jsId # ev.which
    /\ out = <<SDL_GameControllerClose(ControllerOf(ev.which))>>

\* C6: the detach of a controller that a slot holds sends one final
\* controller event, all zero, for the slot's player index, whose mask is the
\* mask after the detach (in multi-controller mode without the slot's bit),
\* zeroes the whole slot and leaves every other slot unchanged.
C6_DetachSendsFinalEventAndZeroesSlot ==
    [][\A i \in GamepadSlots :
        (/\ ev'.type = "SDL_CONTROLLERDEVICEREMOVED"
         /\ Populated(i) /\ m_GamepadState[i].jsId = ev'.which)
        => /\ \E k \in 1..Len(out') :
                 /\ ControllerEvents(out') = {k}
                 /\ out'[k] = LiSendMultiControllerEvent(m_GamepadState[i].index,
                                  m_GamepadMask', {}, 0, 0, 0, 0, 0, 0)
           /\ m_MultiController
                 => m_GamepadMask' = m_GamepadMask \ {m_GamepadState[i].index}
           /\ m_MultiController => m_GamepadState[i].index \notin m_GamepadMask'
           /\ m_GamepadState'[i] = ZeroGamepadState
           /\ \A j \in GamepadSlots : j # i => m_GamepadState'[j] = m_GamepadState[j]]_vars

\* the controller of slot 1 has just been detached, with a button held, while
\* slots 0 and 2 stay populated
C6_Witness ==
    /\ m_MultiController
    /\ ev.type = "SDL_CONTROLLERDEVICEREMOVED" /\ ev.which = 1
    /\ Populated(0) /\ ~Populated(1) /\ Populated(2)
    /\ m_GamepadState[1] = ZeroGamepadState
    /\ m_GamepadState[0].buttons # {}
    /\ Len(out) = 2 /\ out[2].type = "LiSendMultiControllerEvent"
    /\ out[2].index = 1 /\ 1 \notin out[2].mask /\ 0 \in out[2].mask

\* C7 as stated: a button or removal event for an instance id that no
\* populated slot holds has no effect and sends nothing.
C7_UnattachedIdIgnored ==
    [][(/\ ev'.type \in {"SDL_CONTROLLERBUTTON", "SDL_CONTROLLERDEVICEREMOVED"}
        /\ \A i \in GamepadSlots : ~(Populated(i) /\ m_GamepadState[i].jsId = ev'.which))
        => /\ out' = <<>>
           /\ m_GamepadState' = m_GamepadState
           /\ m_GamepadMask' = m_GamepadMask]_vars

(***************************************************************************)
(* Properties of keyboard, focus and mouse button handling                 *)
(***************************************************************************)
\* the keyboard events among a sequence of calls
KeyboardEvents(calls) ==
    {k \in 1..Len(calls) : calls[k].type = "LiSendKeyboardEvent"}

\* C2: every key-down sent to the host puts its key code into the down-key
\* set; a focus loss sends one key-up for every key code in the set, sends
\* nothing else, and leaves the set empty; hence a focus loss with an empty
\* set (a second focus loss right after the first) sends nothing.
C2_FocusLossRaisesEveryDownKeyOnce ==
    [][/\ \A k \in KeyboardEvents(out') :
             out'[k].action = "KEY_ACTION_DOWN" => out'[k].keyCode \in m_KeysDown'
       /\ ev'.type = "SDL_WINDOWEVENT_FOCUS_LOST"
             => /\ \A k \in 1..Len(out') :
                      /\ out'[k].type = "LiSendKeyboardEvent"
                      /\ out'[k].action = "KEY_ACTION_UP"
                      /\ out'[k].keyCode \in m_KeysDown
                /\ \A c \in m_KeysDown :
                      Cardinality({k \in 1..Len(out') : out'[k].keyCode = c}) = 1
                /\ m_KeysDown' = {}]_vars

\* a focus loss has just raised three keys that are still held
C2_Witness ==
    /\ ev.type = "SDL_WINDOWEVENT_FOCUS_LOST"
    /\ Len(out) = 3
    /\ Cardinality({out[k].keyCode : k \in 1..Len(out)}) = 3
    /\ Cardinality(sdlKeysHeld) = 3
    /\ m_KeysDown = {}

\* C8 as stated: an auto-repeat key-down sends no keyboard event to the host
\* and does not change the down-key set.
C8_RepeatChangesNothing ==
    [][(ev'.type = "key" /\ ev'.repeat)
        => /\ KeyboardEvents(out') = {}
           /\ m_KeysDown' = m_KeysDown]_vars

\* the step handles a key press with Ctrl, Alt and Shift held
ComboPressStep ==
    /\ ev'.type = "key" /\ ev'.state = "SDL_PRESSED"
    /\ {"CTRL", "ALT", "SHIFT"} \subseteq ev'.mod

\* C9: under a window manager a key press with Ctrl+Alt+Shift held whose
\* key symbol or scancode is Q, Z, M, X or S sends no key-down to the host,
\* adds nothing to the down-key set, and performs the local action of a
\* letter it matches: quit, toggle capture, toggle mouse mode, toggle
\* full-screen, toggle the overlay.
C9_ReservedComboStaysLocal ==
    [][(/\ platformName # "eglfs"
        /\ ComboPressStep
        /\ \/ ev'.sym \in {"q", "z", "m", "x", "s"}
           \/ ev'.scancode \in {SC.Q, SC.Z, SC.M, SC.X, SC.S})
        => /\ \A k \in KeyboardEvents(out') : out'[k].action = "KEY_ACTION_UP"
           /\ m_KeysDown' \subseteq m_KeysDown
           /\ \/ /\ ev'.sym = "q" \/ ev'.scancode = SC.Q
                 /\ out' = <<PushQuitEvent>>
              \/ /\ ev'.sym = "z" \/ ev'.scancode = SC.Z
                 /\ (relativeMouseMode' \/ m_FakeCaptureActive')
                        # (relativeMouseMode \/ m_FakeCaptureActive)
              \/ /\ ev'.sym = "m" \/ ev'.scancode = SC.M
                 /\ m_AbsoluteMouseMode' # m_AbsoluteMouseMode
              \/ /\ ev'.sym = "x" \/ ev'.scancode = SC.X
                 /\ windowFullscreen' # windowFullscreen
              \/ /\ ev'.sym = "s" \/ ev'.scancode = SC.S
                 /\ \E k \in 1..Len(out') : out'[k] = ToggleOverlay]_vars

\* on the AZERTY layout the key at the scancode of Z, whose symbol is w, has
\* just toggled capture on and raised the three modifier keys
C9_Witness ==
    /\ platformName = "xcb" /\ keyboardLayout = "azerty"
    /\ ev.type = "key" /\ ev.state = "SDL_PRESSED" /\ ~ev.repeat
    /\ ev.scancode = SC.Z /\ ev.sym = "w"
    /\ {"CTRL", "ALT", "SHIFT"} \subseteq ev.mod
    /\ relativeMouseMode \/ m_FakeCaptureActive
    /\ Len(out) = 3 /\ m_KeysDown = {}

\* C10 as stated: while capture is inactive no mouse button event is
\* forwarded, and a left-button release activates capture.
C10_AnyLeftReleaseCaptures ==
    [][(ev'.type = "mouseButton" /\ ~(relativeMouseMode \/ m_FakeCaptureActive))
        => /\ out' = <<>>
           /\ (ev'.button = "SDL_BUTTON_LEFT" /\ ev'.state = "SDL_RELEASED")
                 => (relativeMouseMode' \/ m_FakeCaptureActive')]_vars

\* C10: while capture is inactive no mouse button event is forwarded; a
\* left-button release of a real mouse (not synthesized from touch)
\* activates capture and is not forwarded, and no other button event
\* received while uncaptured changes the capture state.
C10_MouseLeftReleaseCaptures ==
    [][(ev'.type = "mouseButton" /\ ~(relativeMouseMode \/ m_FakeCaptureActive))
        => /\ out' = <<>>
           /\ (relativeMouseMode' \/ m_FakeCaptureActive')
                 <=> /\ ev'.which # SDL_TOUCH_MOUSEID
                     /\ ev'.button = "SDL_BUTTON_LEFT"
                     /\ ev'.state = "SDL_RELEASED"]_vars

\* a left-button release of the mouse has just activated capture without
\* being forwarded
C10_Witness ==
    /\ ev.type = "mouseButton" /\ ev.which # SDL_TOUCH_MOUSEID
    /\ ev.button = "SDL_BUTTON_LEFT" /\ ev.state = "SDL_RELEASED"
    /\ relativeMouseMode \/ m_FakeCaptureActive
    /\ out = <<>>

(***************************************************************************)
(* Properties of gamepad mouse emulation and of the quit combo             *)
(***************************************************************************)
\* the step handles the release of Start on a slot whose mouse emulation is
\* active (the clock does not move while a handler runs)
StartReleasedWhileActive(i) ==
    /\ ticks' = ticks
    /\ ev'.type = "SDL_CONTROLLERBUTTON" /\ ev'.button = "START" /\ ~ev'.pressed
    /\ findStateForGamepad(ev'.which) = i
    /\ m_GamepadState[i].mouseEmulationTimer # 0

\* C15 as stated: releasing Start while the slot's mouse emulation is active
\* leaves the slot's timer handle 0.
C15_AnyStartReleaseDeactivates ==
    [][\A i \in GamepadSlots :
          StartReleasedWhileActive(i) => m_GamepadState'[i].mouseEmulationTimer = 0]_vars

\* C15: releasing Start while the slot's mouse emulation is active returns
\* the slot to inactive (timer handle 0, the presentation layer notified,
\* the gamepad state forwarded again) exactly when Start was held for more than MOUSE_EMULATION_LONG_PRESS_TIME
\* ms; the release of a shorter press leaves mouse emulation active.
C15_LongStartReleaseDeactivates ==
    [][\A i \in GamepadSlots :
          StartReleasedWhileActive(i)
          => IF ticks - m_GamepadState[i].lastStartDownTime > MOUSE_EMULATION_LONG_PRESS_TIME
             THEN /\ m_GamepadState'[i].mouseEmulationTimer = 0
                  /\ out' = <<notifyMouseEmulationMode(FALSE),
                              sendGamepadState(m_GamepadState'[i], m_GamepadMask)>>
             ELSE /\ m_GamepadState'[i].mouseEmulationTimer
                        = m_GamepadState[i].mouseEmulationTimer
                  /\ out' = <<>>]_vars

\* a long press of Start has just ended mouse emulation
C15_Witness ==
    /\ ev.type = "SDL_CONTROLLERBUTTON" /\ ev.button = "START" /\ ~ev.pressed
    /\ Len(out) = 2 /\ out[1] = notifyMouseEmulationMode(FALSE)
    /\ \E i \in GamepadSlots :
          /\ Populated(i) /\ m_GamepadState[i].jsId = ev.which
          /\ m_GamepadState[i].mouseEmulationTimer = 0
          /\ ticks - m_GamepadState[i].lastStartDownTime > MOUSE_EMULATION_LONG_PRESS_TIME

\* C20 as stated: when a button event has completed Start+Select+L1+R1 and
\* the handler has pushed the quit event, the slot's stored buttons,
\* triggers and sticks are all 0.
C20_QuitComboZeroesSlot ==
    (/\ ev.type = "SDL_CONTROLLERBUTTON"
     /\ \E k \in 1..Len(out) : out[k] = PushQuitEvent)
    => \A i \in GamepadSlots :
          (Populated(i) /\ m_GamepadState[i].jsId = ev.which)
          => /\ m_GamepadState[i].buttons = {}
             /\ m_GamepadState[i].lt = 0 /\ m_GamepadState[i].rt = 0
             /\ m_GamepadState[i].lsX = 0 /\ m_GamepadState[i].lsY = 0
             /\ m_GamepadState[i].rsX = 0 /\ m_GamepadState[i].rsY = 0

(***************************************************************************)
(* Mouse motion: handleMouseMotionEvent on the event loop thread and       *)
(* mouseMoveTimerCallback on the SDL timer thread                          *)
(***************************************************************************)
Min(a, b) == IF a < b THEN a ELSE b

\* the values of a short
ShortRange == (-32768)..32767

\* the cast (short)v of an int
ToShort(v) == ((v + 32768) % 65536) - 32768

SDL_Rect(x, y, w, h) == [x |-> x, y |-> y, w |-> w, h |-> h]

\* ceil(n / d) for n >= 0 and d > 0
Ceil(n, d) == (n + d - 1) \div d

\* StreamUtils::scaleSourceToDestinationSurface: dst becomes the largest
\* rectangle of the aspect ratio of src centered in dst
scaleSourceToDestinationSurface(src, dst) ==
    LET dstH == Ceil(dst.w * src.h, src.w)
        dstW == Ceil(dst.h * src.w, src.h)
    IN IF dstH > dst.h
       THEN [dst EXCEPT !.x = dst.x + (dst.w - dstW) \div 2, !.w = dstW]
       ELSE [dst EXCEPT !.y = dst.y + (dst.h - dstH) \div 2, !.h = dstH]

\* the video region of the window
VideoRegion ==
    scaleSourceToDestinationSurface(SDL_Rect(0, 0, m_StreamWidth, m_StreamHeight),
                                    SDL_Rect(0, 0, windowWidth, windowHeight))

\* the absolute branch as it would be if it sent stream coordinates
MouseMotionAbsoluteInStreamCoordinates(event) ==
    LET dst == VideoRegion
        x == ToShort((Min(Max(event.x - dst.x, 0), dst.w) * m_StreamWidth) \div dst.w)
        y == ToShort((Min(Max(event.y - dst.y, 0), dst.h) * m_StreamHeight) \div dst.h)
    IN <<LiSendMousePositionEvent(x, y, m_StreamWidth, m_StreamHeight)>>

\* handleMouseMotionEvent, m_AbsoluteMouseMode branch: the calls made
MouseMotionAbsolute(event) ==
    LET dst == VideoRegion
        x == ToShort(Min(Max(event.x - dst.x, 0), dst.w))
        y == ToShort(Min(Max(event.y - dst.y, 0), dst.h))
    IN <<LiSendMousePositionEvent(x, y, dst.w, dst.h)>>

\* SDL_AtomicAdd: one indivisible step (the accumulators stay far from the
\* ends of an int here)
SDL_AtomicAdd(a, v) == [value |-> a + v, previous |-> a]

\* an exchange that hands out the value and leaves it in place
SDL_AtomicSetKeepsValue(a, v) == [value |-> a, previous |-> a]

\* SDL_AtomicSet: one indivisible step that returns the previous value
SDL_AtomicSet(a, v) == [value |-> v, previous |-> a]

\* handleMouseMotionEvent up to and including SDL_AtomicAdd(&m_MouseDeltaX, ...)
handleMouseMotionEvent(event) ==
    LET accepted == isCaptureActive(Capture) /\ event.which # SDL_TOUCH_MOUSEID
    IN /\ motionPc = "idle"
       /\ ev' = event
       /\ out' = IF accepted /\ m_AbsoluteMouseMode THEN MouseMotionAbsolute(event) ELSE <<>>
       /\ IF accepted /\ ~m_AbsoluteMouseMode
          THEN /\ m_MouseDeltaX' = SDL_AtomicAdd(m_MouseDeltaX, event.xrel).value
               /\ acceptedX' = acceptedX + event.xrel
               /\ deltasInRange' = (deltasInRange /\ m_MouseDeltaX' \in ShortRange)
               /\ motionPc' = "addY"
               /\ motionEvent' = event
          ELSE UNCHANGED <<m_MouseDeltaX, acceptedX, deltasInRange, motionPc, motionEvent>>
       /\ UNCHANGED <<m_MouseDeltaY, acceptedY, timerPc, deltaX, deltaY, sentX, sentY>>

\* handleMouseMotionEvent, SDL_AtomicAdd(&m_MouseDeltaY, ...) and return
handleMouseMotionEventAddY ==
    /\ motionPc = "addY"
    /\ m_MouseDeltaY' = SDL_AtomicAdd(m_MouseDeltaY, motionEvent.yrel).value
    /\ acceptedY' = acceptedY + motionEvent.yrel
    /\ deltasInRange' = (deltasInRange /\ m_MouseDeltaY' \in ShortRange)
    /\ motionPc' = "idle"
    /\ motionEvent' = [type |-> "none"]
    /\ UNCHANGED <<m_MouseDeltaX, acceptedX, timerPc, deltaX, deltaY, sentX, sentY,
                   motionCount, ev, out>>

\* mouseMoveTimerCallback, short deltaX = (short)SDL_AtomicSet(&m_MouseDeltaX, 0)
mouseMoveTimerCallbackDeltaX ==
    /\ timerPc = "idle"
    /\ LET r == SDL_AtomicSet(m_MouseDeltaX, 0)
       IN /\ m_MouseDeltaX' = r.value
          /\ deltaX' = ToShort(r.previous)
    /\ timerPc' = "deltaY"
    /\ UNCHANGED <<m_MouseDeltaY, deltaY, motionPc, motionEvent, acceptedX, acceptedY,
                   sentX, sentY, deltasInRange, motionCount, ev, out>>

\* mouseMoveTimerCallback, short deltaY = (short)SDL_AtomicSet(&m_MouseDeltaY, 0)
mouseMoveTimerCallbackDeltaY ==
    /\ timerPc = "deltaY"
    /\ LET r == SDL_AtomicSet(m_MouseDeltaY, 0)
       IN /\ m_MouseDeltaY' = r.value
          /\ deltaY' = ToShort(r.previous)
    /\ timerPc' = "send"
    /\ UNCHANGED <<m_MouseDeltaX, deltaX, motionPc, motionEvent, acceptedX, acceptedY,
                   sentX, sentY, deltasInRange, motionCount, ev, out>>

MouseMoveTimerEvent == [type |-> "mouseMoveTimerCallback"]

\* mouseMoveTimerCallback, the test of the deltas, LiSendMouseMoveEvent and return
mouseMoveTimerCallbackSend ==
    /\ timerPc = "send"
    /\ ev' = MouseMoveTimerEvent
    /\ IF deltaX # 0 \/ deltaY # 0
       THEN /\ out' = <<LiSendMouseMoveEvent(deltaX, deltaY)>>
            /\ sentX' = sentX + deltaX
            /\ sentY' = sentY + deltaY
       ELSE /\ out' = <<>>
            /\ UNCHANGED <<sentX, sentY>>
    /\ timerPc' = "idle"
    /\ deltaX' = 0
    /\ deltaY' = 0
    /\ UNCHANGED <<m_MouseDeltaX, m_MouseDeltaY, motionPc, motionEvent, acceptedX, acceptedY,
                   deltasInRange, motionCount>>

\* SDL dispatches a mouse motion event to the event loop
MouseMotionEvent(which, x, y, xrel, yrel) ==
    /\ motionCount < MaxMotionEvents
    /\ motionCount' = motionCount + 1
    /\ handleMouseMotionEvent([type |-> "SDL_MOUSEMOTION", which |-> which,
                               x |-> x, y |-> y, xrel |-> xrel, yrel |-> yrel])
    /\ UNCHANGED <<padVars, keyVars, eglVars, glVars, hostVars, threadVars, touchVars, sizeVars>>

\* the event loop thread goes on inside handleMouseMotionEvent
MouseMotionEventContinues ==
    /\ handleMouseMotionEventAddY
    /\ UNCHANGED <<padVars, keyVars, eglVars, glVars, hostVars, threadVars, touchVars, sizeVars>>

\* the SDL timer thread runs a step of the mouse move timer, which is
\* rescheduled every time it returns
MouseMoveTimerStep ==
    /\ \/ mouseMoveTimerCallbackDeltaX
       \/ mouseMoveTimerCallbackDeltaY
       \/ mouseMoveTimerCallbackSend
    /\ UNCHANGED <<padVars, keyVars, eglVars, glVars, hostVars, threadVars, touchVars, sizeVars>>

(***************************************************************************)
(* SpecMotion: motion events of a real mouse and of the touch screen in    *)
(* both pointer modes, interleaved with the mouse move timer; the left     *)
(* button takes the capture                                                *)
(***************************************************************************)
\* <<x, y, xrel, yrel>>
MotionInputs == {<<480, 270, -3, 2>>, <<-5, 600, 20000, 0>>, <<959, 100, 3, -20000>>}

\* <<windowWidth, windowHeight>>: the aspect ratio of the stream, a taller
\* window (letterbox) and a wider one (pillarbox)
WindowSizes == {<<960, 540>>, <<960, 720>>, <<1280, 540>>}

InitMotion ==
    /\ InitGamepads(FALSE, FALSE, 0)
    /\ \E absoluteMouseMode \in BOOLEAN :
           /\ InitKeyboard(absoluteMouseMode, "xcb", "qwerty")
           /\ \E size \in (IF absoluteMouseMode THEN WindowSizes ELSE {<<960, 540>>}) :
                  InitPointer(1920, 1080, size[1], size[2])
    /\ InitRenderer
    /\ InitInitialized
    /\ InitHost
    /\ InitThreads
    /\ ev = NoEvent
    /\ out = <<>>

NextMotion ==
    \/ /\ motionPc = "idle"
       /\ \E granted \in BOOLEAN : MouseButtonEvent(0, "SDL_BUTTON_LEFT", "SDL_RELEASED", granted)
    \/ \E which \in MouseIds, m \in MotionInputs : MouseMotionEvent(which, m[1], m[2], m[3], m[4])
    \/ MouseMotionEventContinues
    \/ MouseMoveTimerStep

SpecMotion == InitMotion /\ [][NextMotion]_vars

(***************************************************************************)
(* Properties of mouse motion                                              *)
(***************************************************************************)
\* what a run of mouseMoveTimerCallback has taken out of the accumulators and
\* has not passed to LiSendMouseMoveEvent yet
InFlightX == IF timerPc \in {"deltaY", "send"} THEN deltaX ELSE 0
InFlightY == IF timerPc = "send" THEN deltaY ELSE 0

\* the step is the dispatch of a mouse motion event
MotionStep == motionCount' = motionCount + 1 /\ ev'.type = "SDL_MOUSEMOTION"

\* C11: in relative mode, however the two atomic additions of a motion event
\* interleave with the two atomic exchanges of a timer tick, no motion is
\* lost or counted twice while the accumulators stay in the range of a short:
\* what was sent, plus what a tick in progress has taken, plus the accumulator
\* is what was added (so between ticks sent plus accumulator is what was
\* added); an accumulator changes only by a motion event adding its delta or
\* by the timer exchanging it with 0; and a tick that took 0 from both
\* accumulators sends nothing, any other tick sends exactly what it took.
C11_NoMotionLostOrCountedTwice ==
    /\ [](deltasInRange =>
            /\ sentX + InFlightX + m_MouseDeltaX = acceptedX
            /\ sentY + InFlightY + m_MouseDeltaY = acceptedY
            /\ (timerPc = "idle" => /\ sentX + m_MouseDeltaX = acceptedX
                                    /\ sentY + m_MouseDeltaY = acceptedY))
    /\ [][/\ m_MouseDeltaX' # m_MouseDeltaX =>
              \/ /\ timerPc = "idle" /\ timerPc' = "deltaY"
                 /\ m_MouseDeltaX' = 0
                 /\ deltaX' = ToShort(m_MouseDeltaX)
              \/ /\ MotionStep
                 /\ m_MouseDeltaX' = m_MouseDeltaX + ev'.xrel
          /\ m_MouseDeltaY' # m_MouseDeltaY =>
              \/ /\ timerPc = "deltaY" /\ timerPc' = "send"
                 /\ m_MouseDeltaY' = 0
                 /\ deltaY' = ToShort(m_MouseDeltaY)
              \/ /\ motionPc = "addY" /\ motionPc' = "idle"
                 /\ m_MouseDeltaY' = m_MouseDeltaY + motionEvent.yrel
          /\ (timerPc = "send" /\ timerPc' = "idle") =>
              out' = IF deltaX = 0 /\ deltaY = 0 THEN <<>>
                     ELSE <<LiSendMouseMoveEvent(deltaX, deltaY)>>]_vars

\* a tick ran between the two additions of the first motion event: it sent
\* the x delta alone, and the y delta waits in its accumulator
C11_Witness ==
    /\ ev = MouseMoveTimerEvent
    /\ motionCount = 1
    /\ deltasInRange
    /\ Len(out) = 1
    /\ out[1].type = "LiSendMouseMoveEvent"
    /\ out[1].deltaX = -3 /\ out[1].deltaY = 0
    /\ m_MouseDeltaX = 0 /\ m_MouseDeltaY = 2
    /\ sentX = acceptedX /\ acceptedY = 2

\* the step is the dispatch of a motion event of a real mouse in absolute
\* mode with the capture active
CapturedAbsoluteMotionAt(x, y, width, height) ==
    /\ MotionStep
    /\ ev'.which # SDL_TOUCH_MOUSEID
    /\ ev'.x = x /\ ev'.y = y
    /\ m_AbsoluteMouseMode
    /\ m_FakeCaptureActive \/ relativeMouseMode
    /\ m_StreamWidth = 1920 /\ m_StreamHeight = 1080
    /\ windowWidth = width /\ windowHeight = height

\* C12 as stated: with a 1920x1080 stream and a 960x540 window, a captured
\* motion event at (480, 270) sends a position event whose coordinates are
\* (960, 540).
C12_MotionSentInStreamCoordinates ==
    [][CapturedAbsoluteMotionAt(480, 270, 960, 540) =>
           \E k \in 1..Len(out') : /\ out'[k].type = "LiSendMousePositionEvent"
                                    /\ out'[k].x = 960 /\ out'[k].y = 540]_vars

\* C12, amended: in absolute mode a captured motion event sends exactly one
\* position event; its coordinates are the window coordinates relative to the
\* video region of the window, clamped to that region, and its reference
\* size is the size of that region, at window scale.  With a 1920x1080
\* stream, a motion event at (480, 270) sends (480, 270) of 960x540 in a
\* 960x540 window, (480, 180) of 960x540 in a 960x720 window (letterbox) and
\* (320, 270) of 960x540 in a 1280x540 window (pillarbox); a motion event at
\* (-5, 600) in a 960x540 window sends (0, 540) of 960x540.
C12_MotionSentInVideoRegionCoordinates ==
    [][/\ CapturedAbsoluteMotionAt(480, 270, 960, 540) =>
               out' = <<LiSendMousePositionEvent(480, 270, 960, 540)>>
       /\ CapturedAbsoluteMotionAt(480, 270, 960, 720) =>
               out' = <<LiSendMousePositionEvent(480, 180, 960, 540)>>
       /\ CapturedAbsoluteMotionAt(480, 270, 1280, 540) =>
               out' = <<LiSendMousePositionEvent(320, 270, 960, 540)>>
       /\ CapturedAbsoluteMotionAt(-5, 600, 960, 540) =>
               out' = <<LiSendMousePositionEvent(0, 540, 960, 540)>>
       /\ \A m \in MotionInputs, size \in WindowSizes :
               CapturedAbsoluteMotionAt(m[1], m[2], size[1], size[2]) =>
                   /\ Len(out') = 1
                   /\ out'[1].type = "LiSendMousePositionEvent"
                   /\ out'[1].x \in 0..out'[1].referenceWidth
                   /\ out'[1].y \in 0..out'[1].referenceHeight
                   /\ out'[1].referenceWidth * 1080 = out'[1].referenceHeight * 1920
                   /\ out'[1].referenceWidth = windowWidth
                          \/ out'[1].referenceHeight = windowHeight]_vars

\* the motion event of the example was handled in the window of the example
C12_Witness ==
    /\ ev.type = "SDL_MOUSEMOTION"
    /\ ev.which = 0 /\ ev.x = 480 /\ ev.y = 270
    /\ m_AbsoluteMouseMode
    /\ windowWidth = 960 /\ windowHeight = 540
    /\ out = <<LiSendMousePositionEvent(480, 270, 960, 540)>>

(***************************************************************************)
(* Touch screen: handleTouchFingerEvent and longPressTimerCallback.  Touch *)
(* coordinates are in thousandths of the window size.                      *)
(***************************************************************************)
\* a distance test no move ever passes
FartherThanNever(a, b, delta) == FALSE

\* qSqrt(qPow(a.x - b.x, 2) + qPow(a.y - b.y, 2)) > delta
FartherThan(a, b, delta) ==
    (a.x - b.x) * (a.x - b.x) + (a.y - b.y) * (a.y - b.y) > delta * delta

\* (int)(coordinate * size), which truncates toward zero
WindowPixel(coordinate, size) ==
    IF coordinate >= 0 THEN (coordinate * size) \div 1000
    ELSE -(((-coordinate) * size) \div 1000)

\* the early returns with only the touch device looked at
TouchIgnoredByDeviceOnly(event, numTouchFingers) == ~event.direct

\* the early returns: not a touchscreen, a finger down with more than one
\* finger on the device, a move or up of a finger that is not the primary one
TouchIgnored(event, numTouchFingers) ==
    \/ ~event.direct
    \/ event.type = "SDL_FINGERDOWN" /\ numTouchFingers > 1
    \/ event.type # "SDL_FINGERDOWN" /\ event.fingerId # m_LastTouchDownEvent.fingerId

\* the test before the position update with the dead zone left out
TouchRepositionsAlways(event) == TRUE

\* the test before the position update: everything but a finger down in the
\* double tap dead zone repositions the cursor
TouchRepositions(event) ==
    \/ event.type # "SDL_FINGERDOWN"
    \/ event.timestamp - m_LastTouchUpEvent.timestamp > DOUBLE_TAP_DEAD_ZONE_DELAY
    \/ FartherThan(event, m_LastTouchUpEvent, DOUBLE_TAP_DEAD_ZONE_DELTA)

\* the position update
TouchPosition(event) ==
    LET dst == VideoRegion
        x == ToShort(Min(Max(WindowPixel(event.x, windowWidth), dst.x), dst.x + dst.w))
        y == ToShort(Min(Max(WindowPixel(event.y, windowHeight), dst.y), dst.y + dst.h))
    IN <<LiSendMousePositionEvent(ToShort(x - dst.x), ToShort(y - dst.y), dst.w, dst.h)>>

handleTouchFingerEvent(event, numTouchFingers) ==
    LET movedFar == FartherThan(event, m_LastTouchDownEvent, LONG_PRESS_ACTIVATION_DELTA)
        position == IF TouchRepositions(event) THEN TouchPosition(event) ELSE <<>>
    IN /\ ev' = event
       /\ IF TouchIgnored(event, numTouchFingers)
          THEN /\ out' = <<>>
               /\ UNCHANGED <<m_LastTouchDownEvent, m_LastTouchUpEvent, m_LongPressTimer,
                              longPressPending, longPressDeadline>>
          ELSE IF event.type = "SDL_FINGERDOWN"
          THEN /\ m_LastTouchDownEvent' = TouchDownSnapshot(event)
               /\ m_LongPressTimer' = 1
               /\ longPressPending' = TRUE
               /\ longPressDeadline' = ticks + LONG_PRESS_ACTIVATION_DELAY
               /\ out' = position \o <<LiSendMouseButtonEvent("BUTTON_ACTION_PRESS",
                                                               "BUTTON_LEFT")>>
               /\ UNCHANGED m_LastTouchUpEvent
          ELSE IF event.type = "SDL_FINGERUP"
          THEN /\ m_LastTouchUpEvent' = TouchUpSnapshot(event)
               /\ m_LongPressTimer' = 0
               /\ longPressPending' = FALSE
               /\ longPressDeadline' = 0
               /\ out' = position \o <<LiSendMouseButtonEvent("BUTTON_ACTION_RELEASE",
                                                               "BUTTON_LEFT"),
                                        LiSendMouseButtonEvent("BUTTON_ACTION_RELEASE",
                                                               "BUTTON_RIGHT")>>
               /\ UNCHANGED m_LastTouchDownEvent
          ELSE /\ IF movedFar
                  THEN /\ m_LongPressTimer' = 0
                       /\ longPressPending' = FALSE
                       /\ longPressDeadline' = 0
                  ELSE UNCHANGED <<m_LongPressTimer, longPressPending, longPressDeadline>>
               /\ out' = position
               /\ UNCHANGED <<m_LastTouchDownEvent, m_LastTouchUpEvent>>

LongPressTimerEvent == [type |-> "longPressTimerCallback"]

\* longPressTimerCallback: it returns 0, so SDL does not schedule it again
longPressTimerCallback ==
    /\ longPressPending
    /\ ticks >= longPressDeadline
    /\ ev' = LongPressTimerEvent
    /\ out' = <<LiSendMouseButtonEvent("BUTTON_ACTION_RELEASE", "BUTTON_LEFT"),
                LiSendMouseButtonEvent("BUTTON_ACTION_PRESS", "BUTTON_RIGHT")>>
    /\ longPressPending' = FALSE
    /\ longPressDeadline' = 0
    /\ UNCHANGED <<m_LastTouchDownEvent, m_LastTouchUpEvent, m_LongPressTimer>>

TouchFingerEvent(type, direct, fingerId, x, y) ==
    [type |-> type, direct |-> direct, fingerId |-> fingerId, x |-> x, y |-> y,
     timestamp |-> ticks]

\* a finger touches the screen: SDL counts it before the event is handled
FingerDown(fingerId, x, y) ==
    /\ fingerId \notin fingersDown
    /\ fingersDown' = fingersDown \cup {fingerId}
    /\ handleTouchFingerEvent(TouchFingerEvent("SDL_FINGERDOWN", TRUE, fingerId, x, y),
                              Cardinality(fingersDown'))
    /\ UNCHANGED <<padVars, keyVars, eglVars, glVars, hostVars, threadVars, motionVars, sizeVars>>

FingerMotion(fingerId, x, y) ==
    /\ fingerId \in fingersDown
    /\ handleTouchFingerEvent(TouchFingerEvent("SDL_FINGERMOTION", TRUE, fingerId, x, y),
                              Cardinality(fingersDown))
    /\ UNCHANGED <<padVars, keyVars, eglVars, glVars, hostVars, threadVars, motionVars, sizeVars, fingersDown>>

FingerUp(fingerId, x, y) ==
    /\ fingerId \in fingersDown
    /\ fingersDown' = fingersDown \ {fingerId}
    /\ handleTouchFingerEvent(TouchFingerEvent("SDL_FINGERUP", TRUE, fingerId, x, y),
                              Cardinality(fingersDown))
    /\ UNCHANGED <<padVars, keyVars, eglVars, glVars, hostVars, threadVars, motionVars, sizeVars>>

\* a finger event of a trackpad
TrackpadEvent(type, fingerId, x, y) ==
    /\ handleTouchFingerEvent(TouchFingerEvent(type, FALSE, fingerId, x, y), 1)
    /\ UNCHANGED <<padVars, keyVars, eglVars, glVars, hostVars, threadVars, motionVars, sizeVars, fingersDown>>

\* the SDL timer thread runs the long press timer once it is due
LongPressTimerFires ==
    /\ longPressTimerCallback
    /\ UNCHANGED <<padVars, keyVars, eglVars, glVars, hostVars, threadVars, motionVars, sizeVars, fingersDown>>

\* SDL_GetTicks moves on by step
TouchClockAdvance(step) ==
    /\ ticks + step <= MaxTouchTicks
    /\ ticks' = ticks + step
    /\ UNCHANGED <<m_MultiController, m_GamepadMouse, m_GamepadMask, m_GamepadState,
                   joysticks, nextInstanceId, axisQueue, keyVars, otherVars, ev, out>>

(***************************************************************************)
(* SpecTouch: fingers 0..MaxFingerId on a touchscreen and a trackpad, with *)
(* the long press timer, the clock stepping around the double tap delay    *)
(* and by the long press delay                                             *)
(***************************************************************************)
FingerIds == 0..MaxFingerId

\* <<x, y>>: a point, one 0.02 away from it, one far away
TouchPoints == {<<500, 500>>, <<505, 500>>, <<520, 500>>, <<900, 100>>}

TouchClockSteps == {DOUBLE_TAP_DEAD_ZONE_DELAY, DOUBLE_TAP_DEAD_ZONE_DELAY + 1,
                    LONG_PRESS_ACTIVATION_DELAY}

InitTouch ==
    /\ InitGamepads(FALSE, FALSE, 0)
    /\ InitKeyboard(TRUE, "xcb", "qwerty")
    /\ InitOther
    /\ ev = NoEvent
    /\ out = <<>>

NextTouch ==
    \/ \E fingerId \in FingerIds, point \in TouchPoints : FingerDown(fingerId, point[1], point[2])
    \/ \E fingerId \in FingerIds, point \in TouchPoints : FingerMotion(fingerId, point[1], point[2])
    \/ \E fingerId \in FingerIds, point \in TouchPoints : FingerUp(fingerId, point[1], point[2])
    \/ \E type \in {"SDL_FINGERDOWN", "SDL_FINGERMOTION", "SDL_FINGERUP"} :
           TrackpadEvent(type, 0, 500, 500)
    \/ LongPressTimerFires
    \/ \E step \in TouchClockSteps : TouchClockAdvance(step)

SpecTouch == InitTouch /\ [][NextTouch]_vars

(***************************************************************************)
(* Properties of the touch screen                                          *)
(***************************************************************************)
LeftPress == LiSendMouseButtonEvent("BUTTON_ACTION_PRESS", "BUTTON_LEFT")

\* the step is the handling of a touchscreen event of the given type
TouchStep(type) ==
    /\ ticks' = ticks
    /\ ev'.type = type
    /\ ev'.direct

\* the step is the handling of a finger down with no other finger on the
\* touchscreen
PrimaryFingerDown == TouchStep("SDL_FINGERDOWN") /\ fingersDown = {}

\* squared distance, in millionths, between the finger and the last finger up
SquaredDistanceToLastUp ==
    (ev'.x - m_LastTouchUpEvent.x) * (ev'.x - m_LastTouchUpEvent.x)
        + (ev'.y - m_LastTouchUpEvent.y) * (ev'.y - m_LastTouchUpEvent.y)

\* C13: a primary finger down at most 250 ms after the recorded finger up
\* and within 0.025 of its position sends the left button press and nothing
\* else; a primary finger down later than that or farther than that sends a
\* position event and then the left button press.
C13_DoubleTapDeadZone ==
    [][PrimaryFingerDown =>
           IF /\ ev'.timestamp - m_LastTouchUpEvent.timestamp <= 250
              /\ SquaredDistanceToLastUp <= 25 * 25
           THEN out' = <<LeftPress>>
           ELSE /\ Len(out') = 2
                /\ out'[1].type = "LiSendMousePositionEvent"
                /\ out'[2] = LeftPress]_vars

\* a finger went up at 0.52 and a finger came down at 0.5, 250 ms later
C13_Witness ==
    /\ ev.type = "SDL_FINGERDOWN" /\ ev.direct
    /\ m_LastTouchUpEvent.timestamp > 0
    /\ ev.timestamp - m_LastTouchUpEvent.timestamp = 250
    /\ ev.x = 500 /\ m_LastTouchUpEvent.x = 520 /\ ev.y = m_LastTouchUpEvent.y
    /\ m_LastTouchDownEvent = TouchDownSnapshot(ev)
    /\ out = <<LeftPress>>

TouchContextUnchanged ==
    UNCHANGED <<m_LastTouchDownEvent, m_LastTouchUpEvent, m_LongPressTimer,
                longPressPending, longPressDeadline>>

\* C14: a finger down while another finger is on the touchscreen sends
\* nothing and leaves the gesture context and the long press timer alone;
\* so does a move or an up of a finger other than the one recorded at the
\* last accepted finger down; and whenever a touchscreen event sends
\* something, its finger is the recorded one.
C14_OneFingerDrivesThePointer ==
    [][/\ (TouchStep("SDL_FINGERDOWN") /\ fingersDown # {}) =>
               out' = <<>> /\ TouchContextUnchanged
       /\ \A type \in {"SDL_FINGERMOTION", "SDL_FINGERUP"} :
               (TouchStep(type) /\ ev'.fingerId # m_LastTouchDownEvent.fingerId) =>
                   out' = <<>> /\ TouchContextUnchanged
       /\ \A type \in {"SDL_FINGERDOWN", "SDL_FINGERMOTION", "SDL_FINGERUP"} :
               (TouchStep(type) /\ out' # <<>>) =>
                   ev'.fingerId = m_LastTouchDownEvent'.fingerId]_vars

\* finger 1 went up while finger 0, recorded at its finger down, holds the
\* left button with the long press timer pending
C14_Witness ==
    /\ ev.type = "SDL_FINGERUP" /\ ev.direct
    /\ ev.fingerId = 1
    /\ m_LastTouchDownEvent.fingerId = 0
    /\ m_LastTouchDownEvent.x = 500
    /\ fingersDown = {0}
    /\ longPressPending
    /\ m_LongPressTimer # 0
    /\ out = <<>>

(***************************************************************************)
(* EGLRenderer: renderFrame with hwmap and compileShader.  SDL_assert is   *)
(* compiled out, as in a release build.                                    *)
(***************************************************************************)
\* const float convert_matrix[], in thousandths
convert_matrix == <<1164, 1164, 1164, 0, -392, 2017, 1596, -813, 0>>

\* the vector nv12.frag subtracts from YCbCr, in 255ths
YCbCrOffset == <<16, 128, 128>>

\* how the GL driver takes the shaders: all is well, or nv12.vert fails to
\* compile, or nv12.frag does, or glCreateProgram returns 0, or the link fails
CompileOutcomes == {"ok", "vertex", "fragment", "program", "link"}

\* compileShader: its return value and m_shader_program when it returns; a
\* program that failed to link is deleted and its name stays in the field
compileShader(outcome) ==
    [ret |-> outcome = "ok",
     program |-> IF outcome \in {"ok", "link"} THEN 1 ELSE 0]

\* the n lowest file descriptors above stderr that are not open, in order
LowestFreeFds(n) ==
    LET free(k) == CHOOSE f \in 3..(3 + k + Cardinality(openFds)) :
                       /\ f \notin openFds
                       /\ Cardinality({g \in 3..f : g \notin openFds}) = k
    IN [k \in 1..n |-> free(k)]

\* the descriptor vaExportSurfaceHandle fills in for an NV12 surface with
\* separate layers: two layers of one plane each, in one or two objects
ExportedDescriptor(numObjects) ==
    [num_layers |-> 2, num_objects |-> numObjects, fds |-> LowestFreeFds(numObjects),
     object_index |-> IF numObjects = 1 THEN <<1, 1>> ELSE <<1, 2>>]

\* what the uninitialized va_desc may hold when the export failed: nothing,
\* or the layers and the descriptor number of an earlier frame
GarbageDescriptors ==
    {[num_layers |-> 0, num_objects |-> 0, fds |-> <<>>, object_index |-> <<>>],
     [num_layers |-> 2, num_objects |-> 1, fds |-> <<3>>, object_index |-> <<1, 1>>]}

\* hwmap: the descriptor it returns, whatever the two statuses are
hwmap(driver) ==
    IF driver.export = "VA_STATUS_SUCCESS" THEN ExportedDescriptor(driver.num_objects)
    ELSE driver.garbage

\* the calls of hwmap
hwmapCalls(driver, dma_img) ==
    <<[type |-> "vaExportSurfaceHandle", status |-> driver.export,
       fds |-> IF driver.export = "VA_STATUS_SUCCESS" THEN dma_img.fds ELSE <<>>],
      [type |-> "vaSyncSurface", status |-> driver.sync]>>

\* the loop over the layers: eglCreateImage, glEGLImageTargetTexture2DOES
\* and eglDestroyImage for each
ImportLayers(dma_img, imageCreated) ==
    [k \in 1..(3 * dma_img.num_layers) |->
        LET i == (k - 1) \div 3
            fd == dma_img.fds[dma_img.object_index[i + 1]]
        IN CASE (k - 1) % 3 = 0 ->
                    [type |-> "eglCreateImage", layer |-> i, fd |-> fd, image |-> imageCreated]
             [] (k - 1) % 3 = 1 ->
                    [type |-> "glEGLImageTargetTexture2DOES", texture |-> i, fd |-> fd,
                     image |-> imageCreated]
             [] OTHER -> [type |-> "eglDestroyImage", layer |-> i]]

\* a loop that closes the descriptor of the first object only
CloseObjectsFirstOnly(dma_img) ==
    [i \in 1..Min(1, dma_img.num_objects) |-> [type |-> "close", fd |-> dma_img.fds[i]]]

\* the loop over the objects: close(dma_img.objects[i].fd)
CloseObjects(dma_img) ==
    [i \in 1..dma_img.num_objects |-> [type |-> "close", fd |-> dma_img.fds[i]]]

\* glDrawElements, with what the draw uses: the vertex array, the program
\* and, if there is a program, its matrix uniform and the offset of nv12.frag
glDrawElements(vao, program, matrix) ==
    [type |-> "glDrawElements", vao |-> vao, program |-> program,
     yuvmat |-> IF program = 0 THEN NoMatrix ELSE matrix,
     offset |-> IF program = 0 THEN NoMatrix ELSE YCbCrOffset]

SDL_GL_SwapWindow == [type |-> "SDL_GL_SwapWindow"]

\* the GL objects compileShader leaves behind: the linked program; a shader
\* that failed to compile is not deleted by load_and_build_shader
compileShaderObjects(outcome) ==
    CASE outcome = "ok" -> {"program"}
      [] outcome = "vertex" -> {"vertex_shader"}
      [] outcome = "fragment" -> {"fragment_shader"}
      [] OTHER -> {}

\* the SDL_assert conditions of compileShader that are false for the format
compileShaderAssertions(format) ==
    (IF format # "AV_PIX_FMT_NONE" THEN {} ELSE {"compileShader: != AV_PIX_FMT_NONE"})
        \cup (IF format # "AV_PIX_FMT_NV12" THEN {}
              ELSE {"compileShader: != AV_PIX_FMT_NV12"})

\* the SDL_assert conditions of renderFrame that are false for the format
renderFrameAssertions(format) ==
    (IF format # "AV_PIX_FMT_NONE" THEN {} ELSE {"renderFrame: != AV_PIX_FMT_NONE"})
        \cup (IF format = "AV_PIX_FMT_NV12" THEN {}
              ELSE {"renderFrame: == AV_PIX_FMT_NV12"})

renderFrame(frame, driver) ==
    LET specializing == m_SwPixelFormat = "AV_PIX_FMT_NONE"
        shader == compileShader(driver.compile)
        asserted == renderFrameAssertions(frame.sw_format)
                        \cup compileShaderAssertions(frame.sw_format)
        dma_img == hwmap(driver)
        closes == CloseObjects(dma_img)
    IN /\ ev' = frame
       /\ IF ~frame.hw
          THEN /\ out' = <<>>
               /\ UNCHANGED <<eglVars, glLive, failedAssertions>>
          ELSE IF specializing /\ ~shader.ret
          THEN /\ m_SwPixelFormat' = frame.sw_format
               /\ m_shader_program' = shader.program
               /\ glLive' = glLive \cup compileShaderObjects(driver.compile)
               /\ failedAssertions' = failedAssertions \cup asserted
               /\ out' = <<>>
               /\ UNCHANGED <<VAO, glCurrentProgram, yuvmat, textures, openFds>>
          ELSE /\ m_SwPixelFormat' = IF specializing THEN frame.sw_format ELSE m_SwPixelFormat
               /\ m_shader_program' = IF specializing THEN shader.program ELSE m_shader_program
               /\ glCurrentProgram' = IF specializing THEN shader.program ELSE glCurrentProgram
               /\ VAO' = IF specializing THEN 1 ELSE VAO
               /\ glLive' = IF specializing
                            THEN glLive \cup compileShaderObjects(driver.compile)
                                        \cup {"VAO", "VBO", "EBO"}
                            ELSE glLive
               /\ failedAssertions' = IF specializing THEN failedAssertions \cup asserted
                                      ELSE failedAssertions
               /\ yuvmat' = IF specializing THEN convert_matrix ELSE yuvmat
               /\ textures' = [i \in 1..2 |->
                                  IF i <= dma_img.num_layers /\ driver.image
                                  THEN [layer |-> i - 1,
                                        fd |-> dma_img.fds[dma_img.object_index[i]]]
                                  ELSE textures[i]]
               /\ openFds' = (openFds \cup (IF driver.export = "VA_STATUS_SUCCESS"
                                             THEN {dma_img.fds[i] : i \in 1..dma_img.num_objects}
                                             ELSE {}))
                                  \ {closes[i].fd : i \in 1..Len(closes)}
               /\ out' = hwmapCalls(driver, dma_img)
                              \o ImportLayers(dma_img, driver.image)
                              \o closes
                              \o <<glDrawElements(VAO', glCurrentProgram', yuvmat'),
                                    SDL_GL_SwapWindow>>

\* the decoder hands a frame to the renderer
RenderFrame(frame, driver) ==
    /\ rendererPc = "initialized"
    /\ renderFrame(frame, driver)
    /\ UNCHANGED <<padVars, keyVars, ptrVars, hostVars, threadVars,
                   rendererPc, m_context, swapInterval>>

(***************************************************************************)
(* SpecRender: hardware and software frames of every colorspace and range, *)
(* with every outcome of the shader build, the surface export, the sync    *)
(* and the image import                                                    *)
(***************************************************************************)
Colorspaces == {"AVCOL_SPC_BT470BG", "AVCOL_SPC_BT709", "AVCOL_SPC_BT2020_NCL",
                "AVCOL_SPC_UNSPECIFIED"}

ColorRanges == {"AVCOL_RANGE_MPEG", "AVCOL_RANGE_JPEG"}

Frames ==
    [type : {"renderFrame"}, hw : BOOLEAN, sw_format : {"AV_PIX_FMT_NV12"},
     colorspace : Colorspaces, color_range : ColorRanges]

VAStatuses == {"VA_STATUS_SUCCESS", "VA_STATUS_ERROR_OPERATION_FAILED"}

\* the outcomes that matter for a frame: the shader build on the first
\* hardware frame, the objects of a successful export, the garbage of a
\* failed one
DriverOutcomes(frame) ==
    {d \in [compile : CompileOutcomes, export : VAStatuses, sync : VAStatuses,
            num_objects : 1..2, garbage : GarbageDescriptors, image : BOOLEAN] :
        /\ (m_SwPixelFormat # "AV_PIX_FMT_NONE" \/ ~frame.hw) => d.compile = "ok"
        /\ d.export # "VA_STATUS_SUCCESS" => d.num_objects = 1
        /\ d.export = "VA_STATUS_SUCCESS" => d.garbage.num_layers = 0}

InitRender ==
    /\ InitGamepads(FALSE, FALSE, 0)
    /\ InitKeyboard(FALSE, "xcb", "qwerty")
    /\ InitOther
    /\ ev = NoEvent
    /\ out = <<>>

NextRender == \E frame \in Frames : \E driver \in DriverOutcomes(frame) : RenderFrame(frame, driver)

SpecRender == InitRender /\ [][NextRender]_vars

(***************************************************************************)
(* Properties of the renderer                                              *)
(***************************************************************************)
\* positions in a sequence of calls of the calls of the given types
CallsOf(calls, types) == {k \in 1..Len(calls) : calls[k].type \in types}

\* the calls that show a frame: plane imports, the draw, the buffer swap
ShowsFrame(calls) ==
    CallsOf(calls, {"eglCreateImage", "glEGLImageTargetTexture2DOES", "glDrawElements",
                    "SDL_GL_SwapWindow"}) # {}

\* C16: when renderFrame returns from a hardware frame whose surface export
\* gave file descriptors, each of them has been closed by exactly one close
\* call and is no longer open, both layers of the frame have been imported
\* into their textures, and every close call comes after every import call.
C16_ExportedFdsClosedOnceAfterImport ==
    [][\A e \in CallsOf(out', {"vaExportSurfaceHandle"}) :
           (ev'.type = "renderFrame" /\ out'[e].status = "VA_STATUS_SUCCESS") =>
               /\ {out'[k].texture : k \in CallsOf(out', {"glEGLImageTargetTexture2DOES"})}
                      = {0, 1}
               /\ \A i \in 1..Len(out'[e].fds) :
                      /\ Cardinality({k \in CallsOf(out', {"close"}) :
                                         out'[k].fd = out'[e].fds[i]}) = 1
                      /\ out'[e].fds[i] \notin openFds'
               /\ \A c \in CallsOf(out', {"close"}) :
                      \A k \in CallsOf(out', {"eglCreateImage", "glEGLImageTargetTexture2DOES",
                                               "eglDestroyImage"}) : k < c]_vars

\* a frame exported as two objects was rendered: two descriptors, both
\* closed, both textures filled
C16_Witness ==
    /\ ev.type = "renderFrame" /\ ev.hw
    /\ Len(out) > 0
    /\ out[1].type = "vaExportSurfaceHandle"
    /\ out[1].status = "VA_STATUS_SUCCESS"
    /\ Len(out[1].fds) = 2
    /\ Cardinality(CallsOf(out, {"close"})) = 2
    /\ textures[1].fd = out[1].fds[1] /\ textures[2].fd = out[1].fds[2]
    /\ openFds = {}

\* C17 as stated: when the surface export or the sync of a frame returns an
\* error status, renderFrame imports no plane, does not draw and does not
\* swap for that frame.
C17_FailedExportDropsFrame ==
    [][\A e \in CallsOf(out', {"vaExportSurfaceHandle", "vaSyncSurface"}) :
           (ev'.type = "renderFrame" /\ out'[e].status # "VA_STATUS_SUCCESS") =>
               ~ShowsFrame(out')]_vars

\* C18 as stated: once the shaders failed to build on the first hardware
\* frame (the pixel format is known and there is no vertex array), no
\* renderFrame call imports planes, draws or swaps.
C18_FailedShaderBuildIsTerminal ==
    [][(ev'.type = "renderFrame" /\ m_SwPixelFormat # "AV_PIX_FMT_NONE" /\ VAO = 0) =>
           ~ShowsFrame(out')]_vars

\* matrixFor of the color conversion library: the matrix, in thousandths, and
\* the offset, in 255ths, of a colorspace and range; BT.601 limited for
\* colorspaces it does not know
matrixFor(colorspace, color_range) ==
    LET full == color_range = "AVCOL_RANGE_JPEG"
    IN [matrix |->
            CASE colorspace = "AVCOL_SPC_BT709" ->
                     IF full THEN <<1000, 1000, 1000, 0, -187, 1856, 1575, -468, 0>>
                     ELSE <<1164, 1164, 1164, 0, -213, 2112, 1793, -533, 0>>
              [] colorspace = "AVCOL_SPC_BT2020_NCL" ->
                     IF full THEN <<1000, 1000, 1000, 0, -165, 1881, 1475, -571, 0>>
                     ELSE <<1164, 1164, 1164, 0, -187, 2142, 1679, -650, 0>>
              [] colorspace = "AVCOL_SPC_BT470BG" ->
                     IF full THEN <<1000, 1000, 1000, 0, -344, 1772, 1402, -714, 0>>
                     ELSE <<1164, 1164, 1164, 0, -392, 2017, 1596, -813, 0>>
              [] OTHER -> <<1164, 1164, 1164, 0, -392, 2017, 1596, -813, 0>>,
        offset |-> IF full /\ colorspace \in {"AVCOL_SPC_BT709", "AVCOL_SPC_BT2020_NCL",
                                               "AVCOL_SPC_BT470BG"}
                   THEN <<0, 128, 128>> ELSE <<16, 128, 128>>]

\* C19 as stated: every draw of a frame uses the matrix and the offset of
\* the colorspace and range of that frame.
C19_DrawUsesMatrixOfFrame ==
    \A k \in CallsOf(out, {"glDrawElements"}) :
        ev.type = "renderFrame" =>
            /\ out[k].yuvmat = matrixFor(ev.colorspace, ev.color_range).matrix
            /\ out[k].offset = matrixFor(ev.colorspace, ev.color_range).offset

(***************************************************************************)
(* Properties of gamepad state forwarding and mouse emulation              *)
(***************************************************************************)
\* the step is the axis or the button handler running for the controller of
\* populated slot i
PadHandlerStep(i) ==
    /\ ticks' = ticks
    /\ ev'.type \in {"SDL_CONTROLLERBUTTON", "SDL_CONTROLLERAXISMOTION"}
    /\ findStateForGamepad(ev'.which) = i
    /\ Populated(i)

\* the last controller event among calls is the state of slot s under mask
LastControllerEventIs(calls, s, mask) ==
    /\ ControllerEvents(calls) # {}
    /\ \E k \in ControllerEvents(calls) :
          /\ \A j \in ControllerEvents(calls) : j <= k
          /\ calls[k] = LiSendMultiControllerEvent(s.index, mask, s.buttons,
                                                   s.lt, s.rt,
                                                   s.lsX, s.lsY, s.rsX, s.rsY)

\* C21 as stated: when the axis or the button handler returns for a populated
\* slot whose mouse emulation is inactive, the last controller event it sent
\* carries exactly the slot's current buttons, triggers and sticks.
C21_InactiveSlotStateIsSent ==
    [][\A i \in GamepadSlots :
          (PadHandlerStep(i) /\ m_GamepadState'[i].mouseEmulationTimer = 0)
          => LastControllerEventIs(out', m_GamepadState'[i], m_GamepadMask')]_vars

\* how many events at the front of queue belong to controller which
RECURSIVE SameControllerRun(_, _)
SameControllerRun(queue, which) ==
    IF queue = <<>> \/ Head(queue).which # which THEN 0
    ELSE 1 + SameControllerRun(Tail(queue), which)

\* the field of a slot an axis is stored in
AxisField(s, axis) ==
    CASE axis = "LEFTX" -> s.lsX
      [] axis = "LEFTY" -> s.lsY
      [] axis = "RIGHTX" -> s.rsX
      [] axis = "RIGHTY" -> s.rsY
      [] axis = "TRIGGERLEFT" -> s.lt
      [] axis = "TRIGGERRIGHT" -> s.rt

\* the step dispatches the oldest queued axis event, of the controller of
\* populated slot i
AxisDispatchStep(i) ==
    /\ ev'.type = "SDL_CONTROLLERAXISMOTION"
    /\ axisQueue # <<>>
    /\ findStateForGamepad(Head(axisQueue).which) = i
    /\ Populated(i)

C23_ActiveSlotStateIsNotForwarded ==
    [][\A i \in GamepadSlots :
          (/\ PadHandlerStep(i)
           /\ m_GamepadState[i].mouseEmulationTimer # 0
           /\ m_GamepadState'[i].mouseEmulationTimer # 0)
          => \A k \in ControllerEvents(out') :
                /\ out'[k] # LiSendMultiControllerEvent(
                                 m_GamepadState'[i].index, m_GamepadMask,
                                 m_GamepadState'[i].buttons,
                                 m_GamepadState'[i].lt, m_GamepadState'[i].rt,
                                 m_GamepadState'[i].lsX, m_GamepadState'[i].lsY,
                                 m_GamepadState'[i].rsX, m_GamepadState'[i].rsY)
                /\ out'[k].buttons = {}
                /\ \E q \in 1..Len(out') : out'[q] = PushQuitEvent]_vars

\* A has just been pressed on a controller in mouse emulation: the press
\* went out as a pointer button and the slot, which holds A and a deflected
\* stick, was not forwarded
C23_Witness ==
    /\ ev.type = "SDL_CONTROLLERBUTTON" /\ ev.button = "A" /\ ev.pressed
    /\ \E i \in GamepadSlots :
          /\ Populated(i) /\ m_GamepadState[i].jsId = ev.which
          /\ m_GamepadState[i].mouseEmulationTimer # 0
          /\ "A_FLAG" \in m_GamepadState[i].buttons
          /\ m_GamepadState[i].lsY # 0
    /\ ControllerEvents(out) = {}
    /\ Len(out) = 1 /\ out[1].type = "LiSendMouseButtonEvent"

\* the step is the button handler running for a release of Start on the
\* controller of slot i
StartReleaseStep(i) ==
    /\ ticks' = ticks
    /\ ev'.type = "SDL_CONTROLLERBUTTON" /\ ev'.button = "START" /\ ~ev'.pressed
    /\ findStateForGamepad(ev'.which) = i

\* C24: every press of Start stamps the slot with the time of the press; a
\* slot's timer handle goes from 0 to nonzero only in the handler of a Start
\* release on that slot, with the gamepad-as-mouse option on and more than
\* MOUSE_EMULATION_LONG_PRESS_TIME ms after the stamp; a Start release on an
\* inactive slot that comes sooner, or with the option off, leaves the
\* handle 0 and notifies nobody.
C24_ActivationNeedsLongStartPressAndOption ==
    [][\A i \in GamepadSlots :
          /\ (/\ ticks' = ticks
              /\ ev'.type = "SDL_CONTROLLERBUTTON" /\ ev'.button = "START" /\ ev'.pressed
              /\ findStateForGamepad(ev'.which) = i)
             => m_GamepadState'[i].lastStartDownTime = ticks
          /\ (m_GamepadState[i].mouseEmulationTimer = 0
                 /\ m_GamepadState'[i].mouseEmulationTimer # 0)
             => /\ StartReleaseStep(i)
                /\ m_GamepadMouse
                /\ ticks - m_GamepadState[i].lastStartDownTime
                      > MOUSE_EMULATION_LONG_PRESS_TIME
          /\ (/\ StartReleaseStep(i)
              /\ m_GamepadState[i].mouseEmulationTimer = 0
              /\ \/ ~m_GamepadMouse
                 \/ ticks - m_GamepadState[i].lastStartDownTime
                       <= MOUSE_EMULATION_LONG_PRESS_TIME)
             => /\ m_GamepadState'[i].mouseEmulationTimer = 0
                /\ \A k \in 1..Len(out') : out'[k].type # "notifyMouseEmulationMode"]_vars

\* Start, pressed at a time after the session began and held for more than
\* MOUSE_EMULATION_LONG_PRESS_TIME ms, has just been released and mouse
\* emulation is active
C24_Witness ==
    /\ ev.type = "SDL_CONTROLLERBUTTON" /\ ev.button = "START" /\ ~ev.pressed
    /\ m_GamepadMouse
    /\ \E i \in GamepadSlots :
          /\ Populated(i) /\ m_GamepadState[i].jsId = ev.which
          /\ m_GamepadState[i].mouseEmulationTimer # 0
          /\ m_GamepadState[i].lastStartDownTime > 0
          /\ ticks - m_GamepadState[i].lastStartDownTime > MOUSE_EMULATION_LONG_PRESS_TIME
    /\ Len(out) = 2 /\ out[2] = notifyMouseEmulationMode(TRUE)

\* the positions among calls of the notifications of mode on
ModeNotices(calls, on) ==
    {k \in 1..Len(calls) : calls[k] = notifyMouseEmulationMode(on)}

\* the slots whose mouse emulation is active
ActiveSlots == {i \in GamepadSlots : m_GamepadState[i].mouseEmulationTimer # 0}

C26_NoEmulatedButtonLeftPressed ==
    (/\ ActiveSlots = {}
     /\ \A i \in GamepadSlots : m_GamepadState[i].buttons = {})
    => hostMouseButtons = {}

(***************************************************************************)
(* Properties of the keyboard as the host sees it                          *)
(***************************************************************************)
\* the step is a key press with Ctrl+Alt+Shift held on a platform with no
\* window manager
EglfsComboPressStep == platformName = "eglfs" /\ ComboPressStep

\* the step changes neither capture, nor the mouse mode, nor full-screen
WindowStateUnchanged ==
    /\ relativeMouseMode' = relativeMouseMode
    /\ m_FakeCaptureActive' = m_FakeCaptureActive
    /\ m_AbsoluteMouseMode' = m_AbsoluteMouseMode
    /\ windowFullscreen' = windowFullscreen

\* C27 as stated: on eglfs a key press with Ctrl+Alt+Shift held whose key
\* symbol or scancode is Q, Z, M, X or S triggers no local action: no quit
\* event, no overlay toggle, no change of capture, mouse mode or full-screen.
C27_EglfsDisablesEveryCombo ==
    [][(/\ EglfsComboPressStep
        /\ \/ ev'.sym \in {"q", "z", "m", "x", "s"}
           \/ ev'.scancode \in {SC.Q, SC.Z, SC.M, SC.X, SC.S})
        => /\ WindowStateUnchanged
           /\ \A k \in 1..Len(out') : out'[k] # PushQuitEvent /\ out'[k] # ToggleOverlay]_vars

\* C27: on eglfs no key press with Ctrl+Alt+Shift held changes capture, the
\* mouse mode or full-screen; Z, M and X (by symbol or scancode, the key
\* being neither Q nor S by symbol or scancode) are handled as ordinary keys
\* and their first press is sent to the host as a key-down; Q still pushes
\* the quit event and S still toggles the overlay.
C27_EglfsDisablesCaptureModeAndFullscreenCombos ==
    [][EglfsComboPressStep
        => /\ WindowStateUnchanged
           /\ (/\ \/ ev'.sym \in {"z", "m", "x"}
                  \/ ev'.scancode \in {SC.Z, SC.M, SC.X}
               /\ ev'.sym \notin {"q", "s"}
               /\ ev'.scancode \notin {SC.Q, SC.S})
              => /\ \A k \in 1..Len(out') :
                       out'[k] # PushQuitEvent /\ out'[k] # ToggleOverlay
                 /\ ~ev'.repeat
                    => out' = <<LiSendKeyboardEvent(KeyCodeFor(ev'.scancode),
                                                    "KEY_ACTION_DOWN",
                                                    ModifierFlags(ev'.mod))>>
           /\ (ev'.sym = "q") => out' = <<PushQuitEvent>>
           /\ (ev'.sym = "s") => (Len(out') >= 1 /\ out'[1] = ToggleOverlay)]_vars

\* on eglfs Ctrl+Alt+Shift+Z has just been pressed: capture is as it was and
\* the Z went to the host
C27_Witness ==
    /\ platformName = "eglfs"
    /\ ev.type = "key" /\ ev.state = "SDL_PRESSED" /\ ~ev.repeat
    /\ ev.scancode = SC.Z /\ ev.sym = "z"
    /\ {"CTRL", "ALT", "SHIFT"} \subseteq ev.mod
    /\ ~relativeMouseMode /\ ~m_FakeCaptureActive
    /\ Len(out) = 1 /\ out[1].type = "LiSendKeyboardEvent"
    /\ out[1].action = "KEY_ACTION_DOWN"

\* the step handles a key press that one of the reserved combos takes
ReservedComboStep ==
    /\ ComboPressStep
    /\ \/ ev'.sym \in {"q", "s"}
       \/ ev'.scancode \in {SC.Q, SC.S}
       \/ /\ platformName # "eglfs"
          /\ \/ ev'.sym \in {"z", "m", "x"}
             \/ ev'.scancode \in {SC.Z, SC.M, SC.X}

\* the step handles a key event the handler drops: an auto-repeat, an
\* unmapped scancode or a reserved combo
DroppedKeyStep ==
    /\ ev'.type = "key"
    /\ \/ ev'.repeat
       \/ KeyCodeFor(ev'.scancode) = Unhandled
       \/ ReservedComboStep

\* C28 as stated: the down-key set is the set of key codes whose last event
\* sent to the host was a key-down, and an event that is dropped (auto-repeat,
\* unmapped scancode, reserved combo) changes neither of the two.
C28_DroppedKeyEventsChangeNothing ==
    /\ [](m_KeysDown = hostKeysDown)
    /\ [][DroppedKeyStep
           => /\ m_KeysDown' = m_KeysDown
              /\ hostKeysDown' = hostKeysDown]_vars

\* C28: the down-key set is the set of key codes whose last event sent to
\* the host was a key-down; an auto-repeat or unmapped key event that no
\* reserved combo takes sends nothing and changes neither of the two; a key
\* press a reserved combo takes (auto-repeats included) sends no key-down and
\* either changes neither or raises every key: the set is emptied and each of
\* its key codes gets one key-up.
C28_KeysDownIsWhatTheHostHolds ==
    /\ [](m_KeysDown = hostKeysDown)
    /\ [][(DroppedKeyStep /\ ~ReservedComboStep)
           => /\ out' = <<>>
              /\ m_KeysDown' = m_KeysDown
              /\ hostKeysDown' = hostKeysDown]_vars
    /\ [][(ev'.type = "key" /\ ReservedComboStep)
           => /\ \A k \in KeyboardEvents(out') : out'[k].action = "KEY_ACTION_UP"
              /\ \/ /\ KeyboardEvents(out') = {}
                    /\ m_KeysDown' = m_KeysDown
                    /\ hostKeysDown' = hostKeysDown
                 \/ /\ m_KeysDown' = {}
                    /\ hostKeysDown' = {}
                    /\ \A c \in m_KeysDown :
                          Cardinality({k \in KeyboardEvents(out') :
                                          out'[k].keyCode = c}) = 1]_vars

\* Ctrl+Alt+Shift+S has just toggled the overlay and raised the four keys
\* that were down on the host
C28_Witness ==
    /\ ev.type = "key" /\ ev.state = "SDL_PRESSED" /\ ev.scancode = SC.S
    /\ {"CTRL", "ALT", "SHIFT"} \subseteq ev.mod
    /\ Cardinality(KeyboardEvents(out)) = 4
    /\ m_KeysDown = {} /\ hostKeysDown = {}
    /\ Cardinality(sdlKeysHeld) = 4

\* the key codes the host holds when call k of calls reaches it
HostKeysDownBefore(calls, k) == HostKeysDownAfter(hostKeysDown, SubSeq(calls, 1, k - 1))

PrimaryFingerStep(type) ==
    /\ TouchStep(type)
    /\ ev'.fingerId = m_LastTouchDownEvent.fingerId

\* the step is the long press timer's callback
LongPressStep ==
    /\ ticks' = ticks
    /\ ev'.type = "longPressTimerCallback"
    /\ longPressPending' # longPressPending

\* C30: a primary finger down arms the long press for LONG_PRESS_ACTIVATION_DELAY
\* ms later, and nothing else arms it; the long press fires only while armed,
\* with the primary finger still down and the delay over, sends left-button
\* release then right-button press, and disarms itself, so it fires once per
\* touch; a move of the primary finger farther than LONG_PRESS_ACTIVATION_DELTA
\* from the touch-down position, or its lift, disarms it for the rest of the
\* touch; a move within that distance leaves it armed with the same deadline.
C30_LongPressFiresOnceForASteadyTouch ==
    [][/\ PrimaryFingerDown
          => /\ longPressPending'
             /\ longPressDeadline' = ticks + LONG_PRESS_ACTIVATION_DELAY
       /\ (~longPressPending /\ longPressPending') => PrimaryFingerDown
       /\ LongPressStep
          => /\ longPressPending /\ ~longPressPending'
             /\ ticks >= longPressDeadline
             /\ m_LastTouchDownEvent.fingerId \in fingersDown
             /\ out' = <<LiSendMouseButtonEvent("BUTTON_ACTION_RELEASE", "BUTTON_LEFT"),
                         LiSendMouseButtonEvent("BUTTON_ACTION_PRESS", "BUTTON_RIGHT")>>
       /\ (\/ PrimaryFingerStep("SDL_FINGERUP")
           \/ /\ PrimaryFingerStep("SDL_FINGERMOTION")
              /\ (ev'.x - m_LastTouchDownEvent.x) * (ev'.x - m_LastTouchDownEvent.x)
                    + (ev'.y - m_LastTouchDownEvent.y) * (ev'.y - m_LastTouchDownEvent.y)
                    > LONG_PRESS_ACTIVATION_DELTA * LONG_PRESS_ACTIVATION_DELTA)
          => ~longPressPending'
       /\ (/\ PrimaryFingerStep("SDL_FINGERMOTION")
           /\ (ev'.x - m_LastTouchDownEvent.x) * (ev'.x - m_LastTouchDownEvent.x)
                 + (ev'.y - m_LastTouchDownEvent.y) * (ev'.y - m_LastTouchDownEvent.y)
                 <= LONG_PRESS_ACTIVATION_DELTA * LONG_PRESS_ACTIVATION_DELTA)
          => /\ longPressPending' = longPressPending
             /\ longPressDeadline' = longPressDeadline]_vars

\* the long press has just fired for a finger that went down
\* LONG_PRESS_ACTIVATION_DELAY ms ago and is still down
C30_Witness ==
    /\ ev.type = "longPressTimerCallback"
    /\ ticks >= LONG_PRESS_ACTIVATION_DELAY
    /\ m_LastTouchDownEvent.fingerId \in fingersDown
    /\ ~longPressPending
    /\ Len(out) = 2
    /\ out[1] = LiSendMouseButtonEvent("BUTTON_ACTION_RELEASE", "BUTTON_LEFT")
    /\ out[2] = LiSendMouseButtonEvent("BUTTON_ACTION_PRESS", "BUTTON_RIGHT")

(***************************************************************************)
(* The long press timer beside the touch handler.  SDL runs the callback   *)
(* on its timer thread; SDL_RemoveTimer keeps a timer that is still        *)
(* waiting from firing, and does nothing to a callback that is already     *)
(* running.  The callback is two calls, each of which the main thread can  *)
(* precede or follow, and the host observes every call.                    *)
(***************************************************************************)
\* a touchscreen finger event, the host observing the calls
ObservedFingerEvent(type, fingerId, x, y) ==
    /\ IF type = "SDL_FINGERDOWN" THEN fingerId \notin fingersDown
       ELSE fingerId \in fingersDown
    /\ fingersDown' = IF type = "SDL_FINGERDOWN" THEN fingersDown \cup {fingerId}
                      ELSE IF type = "SDL_FINGERUP" THEN fingersDown \ {fingerId}
                      ELSE fingersDown
    /\ handleTouchFingerEvent(TouchFingerEvent(type, TRUE, fingerId, x, y),
                              IF type = "SDL_FINGERDOWN" THEN Cardinality(fingersDown')
                              ELSE Cardinality(fingersDown))
    /\ hostMouseButtons' = HostMouseButtonsAfter(hostMouseButtons, out')
    /\ UNCHANGED <<padVars, keyVars, eglVars, glVars, hostKeysDown, threadVars, motionVars, sizeVars>>

LongPressTimerDue == [type |-> "SDL_TimerThread"]

\* the timer thread finds the timer due and not removed, and enters the callback
LongPressTimerDispatched ==
    /\ longPressPc = "idle"
    /\ longPressPending
    /\ ticks >= longPressDeadline
    /\ longPressPc' = "release"
    /\ longPressPending' = FALSE
    /\ longPressDeadline' = 0
    /\ ev' = LongPressTimerDue
    /\ out' = <<>>
    /\ UNCHANGED <<padVars, keyVars, eglVars, glVars, hostVars, motionVars, sizeVars, fingersDown,
                   m_LastTouchDownEvent, m_LastTouchUpEvent, m_LongPressTimer>>

\* longPressTimerCallback, one call at a time
LongPressTimerCall ==
    /\ longPressPc # "idle"
    /\ ev' = LongPressTimerEvent
    /\ IF longPressPc = "release"
       THEN /\ out' = <<LiSendMouseButtonEvent("BUTTON_ACTION_RELEASE", "BUTTON_LEFT")>>
            /\ longPressPc' = "press"
       ELSE /\ out' = <<LiSendMouseButtonEvent("BUTTON_ACTION_PRESS", "BUTTON_RIGHT")>>
            /\ longPressPc' = "idle"
    /\ hostMouseButtons' = HostMouseButtonsAfter(hostMouseButtons, out')
    /\ UNCHANGED <<padVars, keyVars, eglVars, glVars, hostKeysDown, motionVars, sizeVars, touchVars>>

(***************************************************************************)
(* SpecLongPress: fingers 0..MaxFingerId on a touchscreen, the clock       *)
(* stepping by the long press delay, the timer thread running beside the   *)
(* handler                                                                 *)
(***************************************************************************)
\* <<x, y>>: a point and one far away from it
LongPressPoints == {<<500, 500>>, <<900, 100>>}

NextLongPress ==
    \/ \E type \in {"SDL_FINGERDOWN", "SDL_FINGERMOTION", "SDL_FINGERUP"},
          fingerId \in FingerIds, point \in LongPressPoints :
           ObservedFingerEvent(type, fingerId, point[1], point[2])
    \/ LongPressTimerDispatched
    \/ LongPressTimerCall
    \/ TouchClockAdvance(LONG_PRESS_ACTIVATION_DELAY)

SpecLongPress == InitTouch /\ [][NextLongPress]_vars

(***************************************************************************)
(* Properties of the long press timer beside the touch handler             *)
(***************************************************************************)
\* C31: every finger-up of the primary finger cancels the pending long press
\* timer and ends with a left button release and a right button release, and
\* once the finger-up has been handled, however the timer callback interleaved
\* with it, no pointer button is left pressed on the host: with every finger
\* lifted and the callback not running, the host holds no button.
C31_FingerUpLeavesNoButtonPressed ==
    /\ [][PrimaryFingerStep("SDL_FINGERUP")
           => /\ m_LongPressTimer' = 0
              /\ ~longPressPending'
              /\ Len(out') >= 2
              /\ out'[Len(out') - 1]
                     = LiSendMouseButtonEvent("BUTTON_ACTION_RELEASE", "BUTTON_LEFT")
              /\ out'[Len(out')]
                     = LiSendMouseButtonEvent("BUTTON_ACTION_RELEASE", "BUTTON_RIGHT")]_vars
    /\ []((fingersDown = {} /\ longPressPc = "idle") => hostMouseButtons = {})

(***************************************************************************)
(* The life of the EGLRenderer: EGLRenderer::initialize with every point   *)
(* at which it gives up, renderFrame, and the destructor                   *)
(***************************************************************************)
\* IFFmpegRenderer::needsTestFrame, which EGLRenderer does not override
needsTestFrame == FALSE

\* the checks of initialize that depend on the platform, in order
InitializeChecks ==
    <<"SDL_GetWindowWMInfo", "info.subsystem", "m_egl_display", "SDL_GL_CreateContext",
      "SDL_GL_MakeCurrent", "eglInitialize", "eglQueryString", "EGL_KHR_image",
      "EGL_EXT_image_dma_buf_import", "glGetError">>

\* the position of a check; one past the last for no failure at all
CheckIndex(check) ==
    IF \E k \in 1..Len(InitializeChecks) : InitializeChecks[k] = check
    THEN CHOOSE k \in 1..Len(InitializeChecks) : InitializeChecks[k] = check
    ELSE Len(InitializeChecks) + 1

SDL_GL_SetSwapInterval(interval, accepted) ==
    [type |-> "SDL_GL_SetSwapInterval", interval |-> interval, accepted |-> accepted]

\* a vsync block that goes on to immediate present when fixed sync is refused
SwapIntervalCallsWithImmediate(enableVsync, platform) ==
    IF ~enableVsync THEN <<SDL_GL_SetSwapInterval(0, platform.immediate)>>
    ELSE IF platform.adaptive THEN <<SDL_GL_SetSwapInterval(-1, TRUE)>>
    ELSE IF platform.fixed
    THEN <<SDL_GL_SetSwapInterval(-1, FALSE), SDL_GL_SetSwapInterval(1, TRUE)>>
    ELSE <<SDL_GL_SetSwapInterval(-1, FALSE), SDL_GL_SetSwapInterval(1, FALSE),
           SDL_GL_SetSwapInterval(0, platform.immediate)>>

\* the vsync block of initialize: SDL_GL_SetSwapInterval returns nonzero
\* when the interval is refused; the result of the second call is not read
SwapIntervalCalls(enableVsync, platform) ==
    IF ~enableVsync THEN <<SDL_GL_SetSwapInterval(0, platform.immediate)>>
    ELSE IF platform.adaptive THEN <<SDL_GL_SetSwapInterval(-1, TRUE)>>
    ELSE <<SDL_GL_SetSwapInterval(-1, FALSE), SDL_GL_SetSwapInterval(1, platform.fixed)>>

\* the interval in force after the calls: that of the last accepted one
RECURSIVE SwapIntervalAfter(_, _)
SwapIntervalAfter(interval, calls) ==
    IF calls = <<>> THEN interval
    ELSE SwapIntervalAfter(IF Head(calls).accepted THEN <<Head(calls).interval>>
                           ELSE interval,
                           Tail(calls))

initialize(params, platform) ==
    LET failed == IF params.videoFormat = "VIDEO_FORMAT_H265_MAIN10" THEN 0
                  ELSE CheckIndex(platform.fail)
        passed(check) == failed > CheckIndex(check)
        swaps == SwapIntervalCalls(params.enableVsync, platform)
        generated == passed("glGetError") \/ platform.textures
    IN /\ ev' = params
       /\ rendererPc' = IF failed > Len(InitializeChecks) THEN "initialized" ELSE "failed"
       /\ m_context' = IF passed("SDL_GL_CreateContext") THEN 1 ELSE 0
       /\ IF failed < CheckIndex("glGetError")
          THEN /\ glLive' = IF passed("SDL_GL_CreateContext") THEN {"context"} ELSE {}
               /\ out' = <<>>
               /\ UNCHANGED swapInterval
          ELSE /\ glLive' = {"context"}
                               \cup (IF generated THEN {"texture0", "texture1"} ELSE {})
               /\ swapInterval' = SwapIntervalAfter(swapInterval, swaps)
               /\ out' = swaps \o <<SDL_GL_SwapWindow>>
       /\ UNCHANGED <<eglVars, failedAssertions>>

\* the decoder initializes the renderer it constructed
Initialize(params, platform) ==
    /\ rendererPc = "constructed"
    /\ initialize(params, platform)
    /\ UNCHANGED <<padVars, keyVars, ptrVars, hostVars, threadVars>>

DestroyEvent == [type |-> "~EGLRenderer"]

\* EGLRenderer::~EGLRenderer, whose body is empty
DestroyRenderer ==
    /\ rendererPc # "destroyed"
    /\ rendererPc' = "destroyed"
    /\ ev' = DestroyEvent
    /\ out' = <<>>
    /\ UNCHANGED <<padVars, keyVars, ptrVars, eglVars, hostVars, threadVars,
                   m_context, glLive, swapInterval, failedAssertions>>

(***************************************************************************)
(* SpecLifecycle: a renderer is constructed, initialized with and without  *)
(* vsync on a platform that may refuse anything, given hardware and        *)
(* software frames, and destroyed                                          *)
(***************************************************************************)
InitializeParams ==
    [type : {"initialize"}, enableVsync : BOOLEAN,
     videoFormat : {"VIDEO_FORMAT_H264", "VIDEO_FORMAT_H265_MAIN10"}]

\* what the platform does: the check that fails, if any, which swap
\* intervals it accepts, whether the textures exist when glGetError reports
PlatformOutcomes ==
    {p \in [fail : {InitializeChecks[k] : k \in 1..Len(InitializeChecks)} \cup {"none"},
            adaptive : BOOLEAN, fixed : BOOLEAN, immediate : BOOLEAN, textures : BOOLEAN] :
        p.fail # "glGetError" => p.textures}

InitLifecycle ==
    /\ InitGamepads(FALSE, FALSE, 0)
    /\ InitKeyboard(FALSE, "xcb", "qwerty")
    /\ InitPointer(1920, 1080, 960, 540)
    /\ InitRenderer
    /\ InitConstructed
    /\ InitHost
    /\ InitThreads
    /\ ev = NoEvent
    /\ out = <<>>

NextLifecycle ==
    \/ \E params \in InitializeParams, platform \in PlatformOutcomes :
           Initialize(params, platform)
    \/ \E frame \in Frames : \E driver \in DriverOutcomes(frame) : RenderFrame(frame, driver)
    \/ DestroyRenderer

SpecLifecycle == InitLifecycle /\ [][NextLifecycle]_vars

(***************************************************************************)
(* Properties of the life of the renderer                                  *)
(***************************************************************************)
\* the step is renderFrame with a frame of the given kind
RenderStep(hw) ==
    /\ ev'.type = "renderFrame"
    /\ ev'.hw = hw

\* C32: the renderer refuses software-decoded frames once, at initialization,
\* and never per frame: no renderFrame is handed a software frame that it
\* detects and drops without showing anything.
C32_NoSoftwareFrameIsDroppedByRenderFrame ==
    [][~(RenderStep(FALSE) /\ ~ShowsFrame(out'))]_vars

\* the SDL_GL_SetSwapInterval calls among the calls, in order
SwapCalls(calls) == SelectSeq(calls, LAMBDA c : c.type = "SDL_GL_SetSwapInterval")

\* the step is an initialize with vsync that got as far as the vsync block
VsyncStep ==
    /\ ev'.type = "initialize"
    /\ ev'.enableVsync
    /\ out' # <<>>

\* C33, as stated: with vsync enabled initialize asks for adaptive sync, for
\* fixed sync if that is refused, for immediate present if that is refused
\* too, and renderFrame never changes the swap interval.
C33_VsyncFallsBackToImmediate ==
    /\ [][VsyncStep
           => LET swaps == SwapCalls(out')
              IN /\ swaps[1].interval = -1
                 /\ Len(swaps) = IF swaps[1].accepted THEN 1
                                 ELSE IF swaps[2].accepted THEN 2 ELSE 3
                 /\ Len(swaps) >= 2 => swaps[2].interval = 1
                 /\ Len(swaps) = 3 => swaps[3].interval = 0]_vars
    /\ [][ev'.type = "renderFrame"
           => swapInterval' = swapInterval /\ SwapCalls(out') = <<>>]_vars

\* C33, amended: with vsync enabled initialize asks for adaptive sync and, if
\* that is refused, for fixed sync, and for nothing after that whether fixed
\* sync is accepted or not; the interval in force is the accepted one, or
\* the one from before when both are refused; renderFrame never changes the
\* swap interval.
C33_VsyncTriesAdaptiveThenFixed ==
    /\ [][VsyncStep
           => LET swaps == SwapCalls(out')
              IN /\ swaps[1].interval = -1
                 /\ Len(swaps) = IF swaps[1].accepted THEN 1 ELSE 2
                 /\ Len(swaps) = 2 => swaps[2].interval = 1
                 /\ swapInterval' = IF swaps[Len(swaps)].accepted
                                    THEN <<swaps[Len(swaps)].interval>>
                                    ELSE swapInterval]_vars
    /\ [][ev'.type = "renderFrame"
           => swapInterval' = swapInterval /\ SwapCalls(out') = <<>>]_vars

\* initialize with vsync has returned true on a platform that refused
\* adaptive and fixed sync: the swap interval is the one from before
C33_Witness ==
    /\ ev.type = "initialize"
    /\ ev.enableVsync
    /\ rendererPc = "initialized"
    /\ Len(SwapCalls(out)) = 2
    /\ ~out[1].accepted /\ ~out[2].accepted
    /\ swapInterval = <<>>

\* C34: after the renderer is destroyed every GL object it created has been
\* released: the context, the textures, the shader program, the buffers and
\* the vertex array, whatever state it was destroyed in.
C34_DestroyedRendererHoldsNoGLObject ==
    rendererPc = "destroyed" => (glLive = {} /\ m_context = 0)

\* C35: every SDL_assert on the render path holds when it is reached, those
\* of compileShader on the format renderFrame recorded included.
C35_NoAssertionFails == failedAssertions = {}

(***************************************************************************)
(* Properties of the player index                                          *)
(***************************************************************************)
\* the step is a handler running for the controller that populated slot i
\* holds: a button or axis event or the removal of that controller
SlotEventStep(i) ==
    /\ ev'.type \in {"SDL_CONTROLLERBUTTON", "SDL_CONTROLLERAXISMOTION",
                     "SDL_CONTROLLERDEVICEREMOVED"}
    /\ Populated(i)
    /\ m_GamepadState[i].jsId = ev'.which

\* the step is the attach that populates slot i
SlotAttachStep(i) ==
    /\ ev'.type = "SDL_CONTROLLERDEVICEADDED"
    /\ ~Populated(i)
    /\ m_GamepadState'[i].controller # NULL

\* C36: in multi-controller mode every populated slot i holds player index i
\* from the attach that populates it to its detach, no two populated slots
\* hold the same controller or the same instance id, and every controller
\* event sent for a populated slot, its arrival and its final event
\* included, carries that player index.
C36_PopulatedSlotKeepsItsPlayerIndex ==
    /\ [](m_MultiController
            => \A i \in GamepadSlots :
                  Populated(i)
                  => /\ m_GamepadState[i].index = i
                     /\ \A j \in GamepadSlots :
                           (j # i /\ Populated(j))
                           => /\ m_GamepadState[j].controller # m_GamepadState[i].controller
                              /\ m_GamepadState[j].jsId # m_GamepadState[i].jsId)
    /\ [][m_MultiController
           => \A i \in GamepadSlots :
                 (SlotEventStep(i) \/ SlotAttachStep(i))
                 => /\ findStateForGamepad(ev'.which) \in {i, NotFound}
                    /\ \A k \in ControllerEvents(out') : out'[k].index = i
                    /\ m_GamepadState'[i].controller # NULL
                          => m_GamepadState'[i].index = i]_vars

\* in multi-controller mode, with slots 0 and 1 populated, a button event of
\* the controller in slot 1 has been sent as player 1
C36_Witness ==
    /\ m_MultiController
    /\ Populated(0) /\ Populated(1)
    /\ ev.type = "SDL_CONTROLLERBUTTON"
    /\ ev.which = m_GamepadState[1].jsId
    /\ ev.pressed
    /\ Len(out) = 1
    /\ out[1].type = "LiSendMultiControllerEvent"
    /\ out[1].index = 1
    /\ out[1].buttons = {"A_FLAG"}

(***************************************************************************)
(* SpecMask: the handler is created with 4..MaxConnectedAtStart game       *)
(* controllers already connected; joysticks then arrive and leave as in    *)
(* SpecSlots                                                               *)
(***************************************************************************)
MaxConnectedAtStart == 5

InitMask ==
    /\ \E mc \in BOOLEAN, n \in (MAX_GAMEPADS)..MaxConnectedAtStart :
          InitGamepads(mc, FALSE, n)
    /\ InitKeyboard(FALSE, "xcb", "qwerty")
    /\ InitOther
    /\ ev = NoEvent
    /\ out = <<>>

SpecMask == InitMask /\ [][NextSlots]_vars

\* C37: the attachment mask sent to the host names players 0..3 only,
\* however many controllers are connected when the handler is created or
\* arrive later.
C37_SentMaskNamesFourPlayersAtMost ==
    [][\A k \in ControllerEvents(out') : out'[k].mask \subseteq GamepadSlots]_vars

(***************************************************************************)
(* Focus changes of the window.  notifyFocusGained captures the pointer    *)
(* in the builds for Windows and macOS, whose Qt platforms are "windows"   *)
(* and "cocoa", when the left button is down inside the window.            *)
(***************************************************************************)
notifyFocusGained(leftButtonInWindow, granted) ==
    LET cap == IF platformName \in {"windows", "cocoa"} /\ leftButtonInWindow
               THEN setCaptureActive(Capture, m_AbsoluteMouseMode, TRUE, granted)
               ELSE Capture
    IN
    /\ ev' = [type |-> "SDL_WINDOWEVENT_FOCUS_GAINED",
              leftButtonInWindow |-> leftButtonInWindow]
    /\ m_FakeCaptureActive' = cap.fake
    /\ relativeMouseMode' = cap.rel
    /\ out' = <<>>
    /\ UNCHANGED <<m_KeysDown, m_AbsoluteMouseMode, windowFullscreen>>

\* another window is activated
WindowFocusLost ==
    /\ windowFocused
    /\ windowFocused' = FALSE
    /\ notifyFocusLost
    /\ hostKeysDown' = HostKeysDownAfter(hostKeysDown, out')
    /\ UNCHANGED <<padVars, ptrVars, eglVars, glVars, hostMouseButtons, threadVars,
                   sdlKeysHeld, platformName, keyboardLayout>>

\* the window is activated again, by a click inside it or otherwise
WindowFocusGained(leftButtonInWindow, granted) ==
    /\ ~windowFocused
    /\ windowFocused' = TRUE
    /\ notifyFocusGained(leftButtonInWindow, granted)
    /\ UNCHANGED <<padVars, otherVars, sdlKeysHeld, platformName, keyboardLayout>>

(***************************************************************************)
(* SpecCapture: the capture, mouse mode and full-screen combos, the left   *)
(* button of a mouse and focus changes, in a build for Windows and one for *)
(* X11, in both pointer modes, the platform granting or refusing relative  *)
(* mouse mode request by request                                           *)
(***************************************************************************)
CaptureLetters == {SC.Z, SC.M, SC.X}

InitCapture ==
    /\ InitGamepads(FALSE, FALSE, 0)
    /\ \E absoluteMouseMode \in BOOLEAN, platform \in {"windows", "xcb"} :
           InitKeyboard(absoluteMouseMode, platform, "qwerty")
    /\ InitOther
    /\ ev = NoEvent
    /\ out = <<>>

\* the keyboard is read while the window has the focus, one letter at a time
NextCapture ==
    \/ windowFocused /\ KeyboardInput(ComboModifiers)
    \/ /\ windowFocused
       /\ sdlKeysHeld \cap CaptureLetters = {}
       /\ \E scancode \in CaptureLetters, granted \in BOOLEAN : KeyDown(scancode, granted)
    \/ windowFocused /\ \E scancode \in CaptureLetters : KeyUp(scancode)
    \/ /\ windowFocused
       /\ \E state \in {"SDL_PRESSED", "SDL_RELEASED"}, granted \in BOOLEAN :
              MouseButtonEvent(0, "SDL_BUTTON_LEFT", state, granted)
    \/ WindowFocusLost
    \/ \E leftButtonInWindow \in BOOLEAN, granted \in BOOLEAN :
           WindowFocusGained(leftButtonInWindow, granted)

SpecCapture == InitCapture /\ [][NextCapture]_vars

(***************************************************************************)
(* Properties of the pointer capture                                       *)
(***************************************************************************)
\* the step is the key-down of the given combo
ComboStep(combo) ==
    /\ ev'.type = "key"
    /\ KeyCombo(ev', platformName) = combo

\* C38: after a setCaptureActive(false) the capture is inactive and after a
\* setCaptureActive(true) it is active, from every reachable state: the
\* focus loss of a windowed relative-mode stream releases the capture, the
\* capture combo inverts it, the mouse mode combo and the focus gain by a
\* click inside the window leave it active.
C38_SetCaptureActiveTakesEffect ==
    /\ [][(/\ ev'.type = "SDL_WINDOWEVENT_FOCUS_LOST"
           /\ ~windowFullscreen
           /\ ~m_AbsoluteMouseMode)
           => ~(m_FakeCaptureActive' \/ relativeMouseMode')]_vars
    /\ [][ComboStep("capture")
           => (m_FakeCaptureActive' \/ relativeMouseMode')
                  = ~(m_FakeCaptureActive \/ relativeMouseMode)]_vars
    /\ [][(\/ ComboStep("mousemode")
           \/ /\ ev'.type = "SDL_WINDOWEVENT_FOCUS_GAINED"
              /\ ev'.leftButtonInWindow
              /\ platformName \in {"windows", "cocoa"})
           => (m_FakeCaptureActive' \/ relativeMouseMode')]_vars

(***************************************************************************)
(* SpecAxisValues: one controller is attached and one axis event waits in  *)
(* SDL's queue, a Y axis event with any 16-bit value or a trigger event    *)
(* with any value SDL reports for a trigger; the event loop dispatches it  *)
(***************************************************************************)
SDL_JOYSTICK_AXIS_MIN == -32768
SDL_JOYSTICK_AXIS_MAX == 32767

AxisValueInputs ==
    ({"LEFTY", "RIGHTY"} \X (SDL_JOYSTICK_AXIS_MIN..SDL_JOYSTICK_AXIS_MAX))
        \cup ({"TRIGGERLEFT", "TRIGGERRIGHT"} \X (0..SDL_JOYSTICK_AXIS_MAX))

\* the handler after the arrival of the first controller, in single
\* controller mode, with one axis event of that controller queued
InitAxisValues ==
    /\ m_MultiController = FALSE
    /\ m_GamepadMouse = FALSE
    /\ m_GamepadMask = getAttachedGamepadMask(FALSE, 1)
    /\ m_GamepadState = [i \in GamepadSlots |->
                            IF i = 0
                            THEN [ZeroGamepadState EXCEPT !.controller = ControllerOf(0)]
                            ELSE ZeroGamepadState]
    /\ joysticks = {0}
    /\ nextInstanceId = 1
    /\ ticks = 0
    /\ \E a \in AxisValueInputs :
           axisQueue = <<[which |-> 0, axis |-> a[1], value |-> a[2]]>>
    /\ InitKeyboard(FALSE, "xcb", "qwerty")
    /\ InitOther
    /\ ev = NoEvent
    /\ out = <<>>

SpecAxisValues == InitAxisValues /\ [][PendingAxisEventDispatched]_vars

(***************************************************************************)
(* Properties of the axis conversions                                      *)
(***************************************************************************)
\* C39: a Y axis event with the 16-bit value v stores -max(v, -32767), which
\* is -v except for v = -32768, lies in -32767..32767 and has the sign
\* opposite to v; a trigger event with v in 0..32767 stores
\* floor(v * 255 / 32767), which lies in 0..255, is 0 for 0 and 255 for
\* 32767; the event sent to the host carries the stored value.
C39_AxisValuesAreConvertedWithoutWrap ==
    [][ev'.type = "SDL_CONTROLLERAXISMOTION"
        => LET v == ev'.value
               s == m_GamepadState'[0]
               stored == CASE ev'.axis = "LEFTY" -> s.lsY
                           [] ev'.axis = "RIGHTY" -> s.rsY
                           [] ev'.axis = "TRIGGERLEFT" -> s.lt
                           [] ev'.axis = "TRIGGERRIGHT" -> s.rt
               sent == CASE ev'.axis = "LEFTY" -> out'[1].lsY
                         [] ev'.axis = "RIGHTY" -> out'[1].rsY
                         [] ev'.axis = "TRIGGERLEFT" -> out'[1].lt
                         [] ev'.axis = "TRIGGERRIGHT" -> out'[1].rt
           IN /\ Len(out') = 1
              /\ sent = stored
              /\ ev'.axis \in {"LEFTY", "RIGHTY"}
                    => /\ stored = IF v >= -32767 THEN -v ELSE 32767
                       /\ stored \in -32767..32767
                       /\ v > 0 => stored < 0
                       /\ v < 0 => stored > 0
              /\ ev'.axis \in {"TRIGGERLEFT", "TRIGGERRIGHT"}
                    => /\ stored \in 0..255
                       /\ stored * 32767 <= v * 255
                       /\ v * 255 < (stored + 1) * 32767
                       /\ v = 0 => stored = 0
                       /\ v = 32767 => stored = 255]_vars

\* the left stick was pushed to the most negative Y value: 32767 is stored
\* and sent
C39_Witness ==
    /\ ev.type = "SDL_CONTROLLERAXISMOTION"
    /\ ev.axis = "LEFTY"
    /\ ev.value = -32768
    /\ m_GamepadState[0].lsY = 32767
    /\ Len(out) = 1
    /\ out[1].lsY = 32767

(***************************************************************************)
(* The mouse emulation timer                                               *)
(***************************************************************************)
MOUSE_EMULATION_MOTION_MULTIPLIER == 4
MOUSE_EMULATION_DEADZONE == 2
StickFullScale == 32766

\* A float of the callback is kept as its sign, the integer part of its
\* magnitude and whether a fractional part is left: the comparison with the
\* deadzone, the subtraction of the deadzone, the test against 0 and the
\* cast to short depend on nothing else.  The value is the exact one; the
\* single precision one has the same integer part and the same side of the
\* deadzone for every 16-bit raw value.
ZeroMotion == [negative |-> FALSE, whole |-> 0, fraction |-> FALSE]

\* the digits, lowest first and in base StickFullScale, of k times the
\* number the digits stand for, plus carry
RECURSIVE TimesInBase(_, _, _)
TimesInBase(digits, k, carry) ==
    IF digits = <<>>
    THEN IF carry = 0
         THEN <<>>
         ELSE <<carry % StickFullScale>>
                  \o TimesInBase(<<>>, k, carry \div StickFullScale)
    ELSE LET p == Head(digits) * k + carry
         IN <<p % StickFullScale>> \o TimesInBase(Tail(digits), k, p \div StickFullScale)

\* qPow(raw / 32766.0f * MOUSE_EMULATION_MOTION_MULTIPLIER, 3): the cube
\* of raw * 4 is written in base 32766, its digits from the fourth on are
\* the integer part of the quotient by 32766^3
CubicMotion(raw) ==
    LET a == IF raw < 0 THEN -raw ELSE raw
        m == MOUSE_EMULATION_MOTION_MULTIPLIER
        a3 == TimesInBase(TimesInBase(<<a % StickFullScale, a \div StickFullScale>>, a, 0),
                          a, 0)
        n == TimesInBase(TimesInBase(TimesInBase(a3, m, 0), m, 0), m, 0)
    IN [negative |-> raw < 0,
        whole |-> IF Len(n) >= 4 THEN n[4] ELSE 0,
        fraction |-> \E k \in 1..3 : k <= Len(n) /\ n[k] # 0]

\* qAbs(delta) > MOUSE_EMULATION_DEADZONE ? delta - MOUSE_EMULATION_DEADZONE : 0
EnforceDeadzone(delta) ==
    IF \/ delta.whole > MOUSE_EMULATION_DEADZONE
       \/ delta.whole = MOUSE_EMULATION_DEADZONE /\ delta.fraction
    THEN IF delta.negative
         THEN [delta EXCEPT !.whole = delta.whole + MOUSE_EMULATION_DEADZONE]
         ELSE [delta EXCEPT !.whole = delta.whole - MOUSE_EMULATION_DEADZONE]
    ELSE ZeroMotion

\* delta != 0
MotionIsNonZero(delta) == delta.whole # 0 \/ delta.fraction

\* (short)delta, which drops the fractional part
MotionAsShort(delta) == ToShort(IF delta.negative THEN -delta.whole ELSE delta.whole)

\* qAbs of a short promoted to int
StickMagnitude(v) == IF v < 0 THEN -v ELSE v

\* the choice of the stick with the strongest input; rawY is a short
RawStick(gamepad) ==
    IF StickMagnitude(gamepad.lsX) + StickMagnitude(gamepad.lsY)
          > StickMagnitude(gamepad.rsX) + StickMagnitude(gamepad.rsY)
    THEN [x |-> gamepad.lsX, y |-> ToShort(-gamepad.lsY)]
    ELSE [x |-> gamepad.rsX, y |-> ToShort(-gamepad.rsY)]

\* SdlInputHandler::mouseEmulationTimerCallback: the calls it makes
mouseEmulationTimerCallback(gamepad) ==
    LET raw == RawStick(gamepad)
        dX == EnforceDeadzone(CubicMotion(raw.x))
        dY == EnforceDeadzone(CubicMotion(raw.y))
    IN IF MotionIsNonZero(dX) \/ MotionIsNonZero(dY)
       THEN <<LiSendMouseMoveEvent(MotionAsShort(dX), MotionAsShort(dY))>>
       ELSE <<>>

\* SDL's timer thread runs the callback of slot i's emulation timer
MouseEmulationTimerDispatched(i) ==
    /\ m_GamepadState[i].mouseEmulationTimer # 0
    /\ ev' = [type |-> "mouseEmulationTimerCallback", slot |-> i]
    /\ out' = mouseEmulationTimerCallback(m_GamepadState[i])
    /\ UNCHANGED <<padVars, keyVars, otherVars>>

(***************************************************************************)
(* SpecEmuMotion: one controller, Start held long to switch the emulation  *)
(* on and off, stick events, and the emulation timer                       *)
(***************************************************************************)
StickValues == {-32766, -11000, -8000, 8000, 11000, 32766}
StickInputs == {"LEFTX", "LEFTY", "RIGHTX"} \X StickValues

\* SDL queues a stick event of the controller when none is pending
StickMotionQueued(which, axis, value) ==
    /\ axisQueue = <<>>
    /\ AxisMotionQueued(which, axis, value)

InitEmuMotion ==
    /\ InitGamepads(FALSE, TRUE, 1)
    /\ InitKeyboard(FALSE, "xcb", "qwerty")
    /\ InitOther
    /\ ev = NoEvent
    /\ out = <<>>

NextEmuMotion ==
    \/ joysticks = {} /\ nextInstanceId = 0 /\ ControllerDeviceAdded(TRUE)
    \/ \E pressed \in BOOLEAN : EmuButtonEvent(0, "START", pressed)
    \/ AdvanceTicks
    \/ \E a \in StickInputs : StickMotionQueued(0, a[1], a[2])
    \/ PendingAxisEventDispatched
    \/ \E i \in GamepadSlots : MouseEmulationTimerDispatched(i)

SpecEmuMotion == InitEmuMotion /\ [][NextEmuMotion]_vars

(***************************************************************************)
(* Properties of the emulated pointer motion                               *)
(***************************************************************************)
\* the motion the statement gives for the base motion d: 0 within the
\* deadzone, else the sign of d and the magnitude |d| - 2, as a short
DeadzoneOfStatement(d) ==
    IF d.whole > 2 \/ (d.whole = 2 /\ d.fraction)
    THEN IF d.negative THEN -(d.whole - 2) ELSE d.whole - 2
    ELSE 0

\* C40: a run of the emulation timer emits, on each axis, 0 when the base
\* motion d has |d| <= 2 and else a motion with the sign of d and the
\* magnitude |d| - 2, so that the emitted motion is never larger than the
\* base motion and mirrored stick deflections give mirrored motions.
C40_DeadzoneIsSymmetric ==
    [][ev'.type = "mouseEmulationTimerCallback"
        => LET raw == RawStick(m_GamepadState[ev'.slot])
               emittedX == IF out' = <<>> THEN 0 ELSE out'[1].deltaX
               emittedY == IF out' = <<>> THEN 0 ELSE out'[1].deltaY
           IN /\ emittedX = DeadzoneOfStatement(CubicMotion(raw.x))
              /\ emittedY = DeadzoneOfStatement(CubicMotion(raw.y))]_vars

====
